---- MODULE Spec2Model ----
(***************************************************************************)
(* Model of the image-converter conversion pipeline:                       *)
(*   - local mode: local.Service.Execute and the worker pool of            *)
(*     FileProcessor.ProcessFiles / processFile / updateStats;             *)
(*   - remote mode: withRetry and the SSH/SFTP Client                      *)
(*     (NewClient, reconnect, Close, DownloadFile, UploadFile);            *)
(*   - the conversion of one file (Convert, ConvertImage);                 *)
(*   - the remote run: remote.Service.Execute, processBatches and          *)
(*     Client.ProcessRemoteFile;                                           *)
(*   - the configuration: the timeout of the SSH dials and the supported   *)
(*     extensions (LoadConfig, validateConfig, IsSupportedExtension).      *)
(* Durations are in whole seconds.                                         *)
(***************************************************************************)
EXTENDS Integers, Sequences, FiniteSets, TLC

\* ------------------------------------------------------------------------
\* Bounds of the model
\* ------------------------------------------------------------------------
MaxFiles == 2
MaxWorkers == 2

\* ------------------------------------------------------------------------
\* Local mode state
\* ------------------------------------------------------------------------
VARIABLES
    cfg,          \* config.Config: Workers, WebPEnabled, AVIFEnabled, DryRun
    execPc,       \* position of local.Service.Execute
    execRet,      \* value returned by Execute: "none", "nil" or "error"
    summaryLogged,\* logSummary has run
    nfiles,       \* len(files) handed to ProcessFiles
    mainPc,       \* position of ProcessFiles: "off", "loop", "wait", "returned"
    idx,          \* number of files the dispatch loop has started
    semaphore,    \* number of tokens in the semaphore channel
    wg,           \* sync.WaitGroup counter
    errorCh,      \* buffered error channel: sequence of the failing files
    pfRet,        \* value returned by ProcessFiles: nil, or the error of a file
    pc,           \* position of the goroutine of each file
    result,       \* value returned by Convert to each goroutine
    tmp,          \* register holding the counter value read by a ++ in progress
    stats,        \* config.ConversionStats
    tracker,      \* utils.MultiProgressTracker counters
    ran,          \* number of processFile calls made for each file
    issued,       \* number of ++ executed on each counter
    configured,   \* the workers value validateConfig was given
    observed,     \* number of tracker calls made by the task of each file
    discovered,   \* what FindFiles met: "none" before the search, then
                  \*   "walkError", "noFiles" or "files"
    loaded        \* loadImage of each file: "none" before the call, then
                  \*   "ok" or "failed"

localVars == <<cfg, execPc, execRet, summaryLogged, nfiles, mainPc, idx,
               semaphore, wg, errorCh, pfRet, pc, result, tmp, stats,
               tracker, ran, issued, configured, observed, discovered,
               loaded>>

Files == 1..MaxFiles

Counters == {"TotalProcessed", "WebPSuccess", "WebPFailed",
             "AVIFSuccess", "AVIFFailed"}

\* ProcessFiles has not returned
NoReturn == [returned |-> FALSE, err |-> FALSE, file |-> 0]

NoResult == [err |-> FALSE, WebPAttempted |-> FALSE, WebPSuccess |-> FALSE,
             AVIFAttempted |-> FALSE, AVIFSuccess |-> FALSE]

\* variant: the worker count is used as the file gives it
validateConfigAsGiven(workers) == workers

\* validateConfig: a worker count below 1 is raised to 1
validateConfig(workers) == IF workers < 1 THEN 1 ELSE workers

\* config.DefaultConfig, as far as the model uses it
DefaultConfig ==
    [Workers |-> 4, WebPEnabled |-> TRUE, AVIFEnabled |-> TRUE, DryRun |-> FALSE]

\* the configurations LoadConfig can hand to the services
LocalConfigs ==
    { [Workers |-> validateConfig(w), WebPEnabled |-> we,
       AVIFEnabled |-> ae, DryRun |-> dr] :
         w \in 0..MaxWorkers, we \in BOOLEAN, ae \in BOOLEAN, dr \in BOOLEAN }

\* what the codecs do for one file: decoding, and each encoder's output
\* ("error": the encoder fails and leaves no file; "partial": it fails after
\* the output file was created; "empty": a zero-byte file is left;
\* "corrupt": a file that cannot be decoded again; "ok": a good file)
EncoderOutcomes ==
    [decode : BOOLEAN,
     webp   : {"error", "partial", "empty", "corrupt", "ok"},
     avif   : {"error", "partial", "empty", "corrupt", "ok"}]

\* variant: a WebP output counts as a success without a look at its size
ConvertNoStat(c, env) ==
    IF ~env.decode
    THEN [NoResult EXCEPT !.err = TRUE]
    ELSE [err           |-> FALSE,
          WebPAttempted |-> c.WebPEnabled,
          WebPSuccess   |-> c.WebPEnabled /\ ~c.DryRun
                                /\ env.webp \in {"ok", "corrupt", "empty"},
          AVIFAttempted |-> c.AVIFEnabled,
          AVIFSuccess   |-> c.AVIFEnabled /\ ~c.DryRun /\ env.avif = "ok"]

\* variant: an error is returned when every enabled encode failed
ConvertErrOnEncodeFailure(c, env) ==
    LET webpOk == c.WebPEnabled /\ ~c.DryRun /\ env.webp \in {"ok", "corrupt"}
        avifOk == c.AVIFEnabled /\ ~c.DryRun /\ env.avif = "ok"
    IN IF ~env.decode \/ (~c.DryRun /\ (c.WebPEnabled \/ c.AVIFEnabled)
                           /\ ~webpOk /\ ~avifOk)
       THEN [NoResult EXCEPT !.err = TRUE]
       ELSE [err           |-> FALSE,
             WebPAttempted |-> c.WebPEnabled,
             WebPSuccess   |-> webpOk,
             AVIFAttempted |-> c.AVIFEnabled,
             AVIFSuccess   |-> avifOk]

\* ImageConverter.Convert: the result of converting one file
Convert(c, env) ==
    IF ~env.decode
    THEN [NoResult EXCEPT !.err = TRUE]
    ELSE [err           |-> FALSE,
          WebPAttempted |-> c.WebPEnabled,
          WebPSuccess   |-> c.WebPEnabled /\ ~c.DryRun
                                /\ env.webp \in {"ok", "corrupt"},
          AVIFAttempted |-> c.AVIFEnabled,
          AVIFSuccess   |-> c.AVIFEnabled /\ ~c.DryRun /\ env.avif = "ok"]

\* variant: a failed WebP encode is not counted
WebPCounterSuccessOnly(r) ==
    IF r.WebPSuccess THEN "WebPSuccess" ELSE "none"

\* updateStats: the counter each of its two branches increments
WebPCounter(r) ==
    IF r.WebPSuccess THEN "WebPSuccess"
    ELSE IF r.WebPAttempted THEN "WebPFailed" ELSE "none"

AVIFCounter(r) ==
    IF r.AVIFSuccess THEN "AVIFSuccess"
    ELSE IF r.AVIFAttempted THEN "AVIFFailed" ELSE "none"

\* the counter a goroutine at position p is incrementing
StageCounter(p, r) ==
    CASE p \in {"webpRead", "webpWrite"}   -> WebPCounter(r)
      [] p \in {"avifRead", "avifWrite"}   -> AVIFCounter(r)
      [] p \in {"totalRead", "totalWrite"} -> "TotalProcessed"
      [] OTHER -> "none"

\* processFile: position after Convert returned r
AfterConvert(r) ==
    IF r.err THEN "sendErr"
    ELSE IF WebPCounter(r) # "none" THEN "webpRead"
    ELSE IF AVIFCounter(r) # "none" THEN "avifRead"
    ELSE "totalRead"

\* processFile: position after the ++ of stage p has been written
AfterWrite(p, r) ==
    CASE p = "webpWrite" -> IF AVIFCounter(r) # "none" THEN "avifRead"
                                                      ELSE "totalRead"
      [] p = "avifWrite" -> "totalRead"
      [] OTHER -> "track"

\* positions at which a goroutine holds a semaphore slot
Running == {"convert", "webpRead", "webpWrite", "avifRead", "avifWrite",
            "totalRead", "totalWrite", "track", "sendErr", "release"}

InFlight == {f \in DOMAIN pc : pc[f] \in Running}

\* ------------------------------------------------------------------------
\* local.Service.Execute
\* ------------------------------------------------------------------------
\* FileFinder.FindFiles: an error of the walk, the error of a search that
\* matched no file, or a list of at least one file
FindFiles == {[err |-> TRUE, n |-> 0, met |-> "walkError"],
              [err |-> TRUE, n |-> 0, met |-> "noFiles"]} \cup
             {[err |-> FALSE, n |-> n, met |-> "files"] : n \in 1..MaxFiles}

\* variant: Execute goes on after a failed search
FindFailedIgnored(found) == FALSE

\* Execute: the test of the error FindFiles returned
FindFailed(found) == found.err

\* Execute up to the call of ProcessFiles: search, then the dry-run branch
ExecuteStart ==
    /\ execPc = "start"
    /\ \E found \in FindFiles :
         /\ discovered' = found.met
         /\ IF FindFailed(found)
            THEN /\ execPc' = "returned"
                 /\ execRet' = "error"
                 /\ UNCHANGED <<nfiles, mainPc>>
            ELSE IF cfg.DryRun
            THEN /\ execPc' = "returned"
                 /\ execRet' = "nil"
                 /\ nfiles' = found.n
                 /\ UNCHANGED mainPc
            ELSE /\ execPc' = "processing"
                 /\ nfiles' = found.n
                 /\ mainPc' = "loop"
                 /\ UNCHANGED execRet
    /\ UNCHANGED <<configured, observed, loaded>>
    /\ UNCHANGED <<cfg, summaryLogged, idx, semaphore, wg, errorCh, pfRet,
                   pc, result, tmp, stats, tracker, ran, issued>>

\* Execute after ProcessFiles returned: an error is returned to the caller,
\* otherwise the summary is logged
ExecuteFinish ==
    /\ execPc = "processing"
    /\ mainPc = "returned"
    /\ execPc' = "returned"
    /\ IF pfRet.err
       THEN execRet' = "error" /\ UNCHANGED summaryLogged
       ELSE execRet' = "nil" /\ summaryLogged' = TRUE
    /\ UNCHANGED <<configured, observed, discovered, loaded>>
    /\ UNCHANGED <<cfg, nfiles, mainPc, idx, semaphore, wg, errorCh, pfRet,
                   pc, result, tmp, stats, tracker, ran, issued>>

\* ------------------------------------------------------------------------
\* FileProcessor.ProcessFiles
\* ------------------------------------------------------------------------
\* variant: a channel with one slot too many
SemaphoreHasRoomOffByOne(sem, workers) == sem <= workers

\* the send on the semaphore channel can proceed
SemaphoreHasRoom(sem, workers) == sem < workers

\* one iteration of the dispatch loop: wg.Add(1), semaphore <- {}, go func
Dispatch ==
    /\ mainPc = "loop"
    /\ idx < nfiles
    /\ SemaphoreHasRoom(semaphore, cfg.Workers)
    /\ wg' = wg + 1
    /\ semaphore' = semaphore + 1
    /\ idx' = idx + 1
    /\ pc' = [pc EXCEPT ![idx + 1] = "convert"]
    /\ UNCHANGED <<configured, observed, discovered, loaded>>
    /\ UNCHANGED <<cfg, execPc, execRet, summaryLogged, nfiles, mainPc,
                   errorCh, pfRet, result, tmp, stats, tracker, ran, issued>>

\* the loop is over: the caller goes on to wg.Wait()
LoopDone ==
    /\ mainPc = "loop"
    /\ idx = nfiles
    /\ mainPc' = "wait"
    /\ UNCHANGED <<configured, observed, discovered, loaded>>
    /\ UNCHANGED <<cfg, execPc, execRet, summaryLogged, nfiles, idx,
                   semaphore, wg, errorCh, pfRet, pc, result, tmp, stats,
                   tracker, ran, issued>>

\* variant: the caller does not wait for the goroutines
WaitDoneNoWait(count) == TRUE

\* wg.Wait() may return
WaitDone(count) == count = 0

\* the error ProcessFiles returns from the closed channel
FirstError(ch) ==
    IF ch = <<>> THEN [returned |-> TRUE, err |-> FALSE, file |-> 0]
    ELSE [returned |-> TRUE, err |-> TRUE, file |-> Head(ch)]

\* wg.Wait(), close(errorCh), tracker.Complete(), return the first error
ProcessFilesReturn ==
    /\ mainPc = "wait"
    /\ WaitDone(wg)
    /\ mainPc' = "returned"
    /\ pfRet' = FirstError(errorCh)
    /\ UNCHANGED <<configured, observed, discovered, loaded>>
    /\ UNCHANGED <<cfg, execPc, execRet, summaryLogged, nfiles, idx,
                   semaphore, wg, errorCh, pc, result, tmp, stats, tracker,
                   ran, issued>>

\* ------------------------------------------------------------------------
\* The goroutine of one file: processFile, then the deferred calls
\* ------------------------------------------------------------------------
\* variant: a success is not counted as processed
IncrementSuccessNotProcessed(t) == [t EXCEPT !.succeeded = @ + 1]

\* MultiProgressTracker.IncrementSuccess: both counters change while the
\* tracker's mutex is held
IncrementSuccess(t) == [t EXCEPT !.processed = @ + 1, !.succeeded = @ + 1]

\* MultiProgressTracker.IncrementFailed, under the same mutex
IncrementFailed(t) == [t EXCEPT !.processed = @ + 1, !.failed = @ + 1]

\* processFile up to the return of Convert; on an error the failure is
\* logged and counted by the tracker and processFile returns it
ConvertStep(f) ==
    /\ pc[f] = "convert"
    /\ \E env \in EncoderOutcomes :
         LET r == Convert(cfg, env) IN
           /\ result' = [result EXCEPT ![f] = r]
           /\ pc' = [pc EXCEPT ![f] = AfterConvert(r)]
           /\ tracker' = IF r.err THEN IncrementFailed(tracker) ELSE tracker
           /\ observed' = IF r.err THEN [observed EXCEPT ![f] = @ + 1]
                                   ELSE observed
           /\ loaded' = [loaded EXCEPT ![f] = IF env.decode THEN "ok"
                                                            ELSE "failed"]
    /\ ran' = [ran EXCEPT ![f] = @ + 1]
    /\ UNCHANGED <<configured, discovered>>
    /\ UNCHANGED <<cfg, execPc, execRet, summaryLogged, nfiles, mainPc, idx,
                   semaphore, wg, errorCh, pfRet, tmp, stats, issued>>

\* the load of an unsynchronized counter++
ReadCounter(f) ==
    /\ pc[f] \in {"webpRead", "avifRead", "totalRead"}
    /\ tmp' = [tmp EXCEPT ![f] = stats[StageCounter(pc[f], result[f])]]
    /\ pc' = [pc EXCEPT ![f] =
                CASE pc[f] = "webpRead" -> "webpWrite"
                  [] pc[f] = "avifRead" -> "avifWrite"
                  [] OTHER -> "totalWrite"]
    /\ UNCHANGED <<configured, observed, discovered, loaded>>
    /\ UNCHANGED <<cfg, execPc, execRet, summaryLogged, nfiles, mainPc, idx,
                   semaphore, wg, errorCh, pfRet, result, stats, tracker,
                   ran, issued>>

\* the store of an unsynchronized counter++
WriteCounter(f) ==
    /\ pc[f] \in {"webpWrite", "avifWrite", "totalWrite"}
    /\ LET c == StageCounter(pc[f], result[f]) IN
         /\ stats' = [stats EXCEPT ![c] = tmp[f] + 1]
         /\ issued' = [issued EXCEPT ![c] = @ + 1]
    /\ tmp' = [tmp EXCEPT ![f] = 0]
    /\ pc' = [pc EXCEPT ![f] = AfterWrite(pc[f], result[f])]
    /\ result' = IF AfterWrite(pc[f], result[f]) = "totalRead"
                 THEN [result EXCEPT ![f] = NoResult]   \* updateStats returned
                 ELSE result
    /\ UNCHANGED <<configured, observed, discovered, loaded>>
    /\ UNCHANGED <<cfg, execPc, execRet, summaryLogged, nfiles, mainPc, idx,
                   semaphore, wg, errorCh, pfRet, tracker, ran>>

\* tracker.IncrementSuccess() under the tracker's mutex; processFile returns
TrackSuccess(f) ==
    /\ pc[f] = "track"
    /\ tracker' = IncrementSuccess(tracker)
    /\ observed' = [observed EXCEPT ![f] = @ + 1]
    /\ pc' = [pc EXCEPT ![f] = "release"]
    /\ UNCHANGED <<configured, discovered, loaded>>
    /\ UNCHANGED <<cfg, execPc, execRet, summaryLogged, nfiles, mainPc, idx,
                   semaphore, wg, errorCh, pfRet, result, tmp, stats, ran,
                   issued>>

\* variant: a channel that buffers a single error
ErrorChCapOne(n) == 1

\* capacity of errorCh: make(chan error, len(files))
ErrorChCap(n) == n

\* the send on errorCh can proceed
ErrorChHasRoom(ch, n) == Len(ch) < ErrorChCap(n)

\* errorCh <- error of the file
SendError(f) ==
    /\ pc[f] = "sendErr"
    /\ ErrorChHasRoom(errorCh, nfiles)
    /\ errorCh' = Append(errorCh, f)
    /\ pc' = [pc EXCEPT ![f] = "release"]
    /\ result' = [result EXCEPT ![f] = NoResult]
    /\ UNCHANGED <<configured, observed, discovered, loaded>>
    /\ UNCHANGED <<cfg, execPc, execRet, summaryLogged, nfiles, mainPc, idx,
                   semaphore, wg, pfRet, tmp, stats, tracker, ran, issued>>

\* deferred <-semaphore
ReleaseSlot(f) ==
    /\ pc[f] = "release"
    /\ semaphore' = semaphore - 1
    /\ pc' = [pc EXCEPT ![f] = "done"]
    /\ UNCHANGED <<configured, observed, discovered, loaded>>
    /\ UNCHANGED <<cfg, execPc, execRet, summaryLogged, nfiles, mainPc, idx,
                   wg, errorCh, pfRet, result, tmp, stats, tracker, ran,
                   issued>>

\* deferred wg.Done()
WgDone(f) ==
    /\ pc[f] = "done"
    /\ wg' = wg - 1
    /\ pc' = [pc EXCEPT ![f] = "exited"]
    /\ UNCHANGED <<configured, observed, discovered, loaded>>
    /\ UNCHANGED <<cfg, execPc, execRet, summaryLogged, nfiles, mainPc, idx,
                   semaphore, errorCh, pfRet, result, tmp, stats, tracker,
                   ran, issued>>

NextLocal ==
    \/ ExecuteStart
    \/ Dispatch
    \/ LoopDone
    \/ ProcessFilesReturn
    \/ ExecuteFinish
    \/ \E f \in DOMAIN pc : ConvertStep(f)
    \/ \E f \in DOMAIN pc : ReadCounter(f)
    \/ \E f \in DOMAIN pc : WriteCounter(f)
    \/ \E f \in DOMAIN pc : TrackSuccess(f)
    \/ \E f \in DOMAIN pc : SendError(f)
    \/ \E f \in DOMAIN pc : ReleaseSlot(f)
    \/ \E f \in DOMAIN pc : WgDone(f)

\* ------------------------------------------------------------------------
\* Remote mode: withRetry
\* ------------------------------------------------------------------------
MaxRetriesBound == 3

VARIABLES
    op,        \* operation withRetry runs: "none", "generic", "download", "upload"
    policy,    \* *retryConfig
    rpc,       \* position of withRetry: "off", "call", "fn", "check", "returned"
    attempt,   \* loop variable of withRetry
    wait,      \* current backoff duration
    err,       \* error returned by the last call of fn
    ret,       \* value returned by withRetry
    calls,     \* number of invocations of fn
    sleeps,    \* durations of the time.Sleep calls, in order
    errHist    \* outcomes of the invocations of a generic fn, in order

retryVars == <<op, policy, rpc, attempt, wait, err, ret, calls, sleeps,
               errHist>>

\* newDefaultRetryConfig
newDefaultRetryConfig ==
    [MaxRetries |-> 3, InitialWait |-> 2, MaxWait |-> 30, Factor |-> 2]

\* retry policies: the default one and others with InitialWait <= MaxWait
RetryPolicies ==
    {newDefaultRetryConfig} \cup
    { [MaxRetries |-> r, InitialWait |-> i, MaxWait |-> m, Factor |-> f] :
        r \in 0..MaxRetriesBound, i \in {1, 2}, m \in {5, 30}, f \in {1, 2, 3} }

\* errors: the step that failed, the underlying cause, the reconnect error
NilErr == [op |-> "nil", cause |-> "", reconnErr |-> ""]

MkErr(step, cause, reconnErr) ==
    [op |-> step, cause |-> cause, reconnErr |-> reconnErr]

\* errors a generic operation can return
FnErrors == {MkErr("fn", "e1", ""), MkErr("fn", "e2", "")}

NoRet == [returned |-> FALSE, err |-> FALSE, retries |-> 0, wraps |-> NilErr]

\* withRetry: return nil
NilReturn == [returned |-> TRUE, err |-> FALSE, retries |-> 0, wraps |-> NilErr]

\* variant: the number of attempts is reported instead of the retries
ExhaustedErrorAttempts(p, e) ==
    [returned |-> TRUE, err |-> TRUE, retries |-> p.MaxRetries + 1, wraps |-> e]

\* withRetry: the error returned once the attempts are exhausted
ExhaustedError(p, e) ==
    [returned |-> TRUE, err |-> TRUE, retries |-> p.MaxRetries, wraps |-> e]

\* withRetry: the loop condition
LoopCondition(a, p) == a <= p.MaxRetries + 1

\* variant: the loop gives up one attempt early
LastAttemptEarly(a, p) == a >= p.MaxRetries

\* withRetry: this was the last attempt
LastAttempt(a, p) == a > p.MaxRetries

\* variant: the backoff is not capped
NextWaitNoCap(w, p) == w * p.Factor

\* withRetry: the backoff after a sleep of w
NextWait(w, p) ==
    IF w * p.Factor > p.MaxWait THEN p.MaxWait ELSE w * p.Factor

\* withRetry, lines 39-41: the loop calls a generic fn, which returns at once
\* (line 64, after the loop, returns the last error as it is)
withRetryCall ==
    /\ rpc = "call"
    /\ op = "generic"
    /\ IF LoopCondition(attempt, policy)
       THEN /\ \E e \in {NilErr} \cup FnErrors :
                 /\ err' = e
                 /\ errHist' = Append(errHist, e)
            /\ calls' = calls + 1
            /\ rpc' = "check"
            /\ UNCHANGED ret
       ELSE /\ ret' = [returned |-> TRUE, err |-> err # NilErr, retries |-> 0,
                       wraps |-> err]
            /\ rpc' = "returned"
            /\ UNCHANGED <<err, errHist, calls>>
    /\ UNCHANGED <<op, policy, attempt, wait, sleeps>>

\* withRetry, lines 42-61: return on success or after the last attempt,
\* otherwise sleep, enlarge the backoff and loop
withRetryResult ==
    /\ rpc = "check"
    /\ IF err = NilErr
       THEN /\ ret' = NilReturn
            /\ rpc' = "returned"
            /\ UNCHANGED <<attempt, wait, sleeps>>
       ELSE IF LastAttempt(attempt, policy)
       THEN /\ ret' = ExhaustedError(policy, err)
            /\ rpc' = "returned"
            /\ UNCHANGED <<attempt, wait, sleeps>>
       ELSE /\ sleeps' = Append(sleeps, wait)
            /\ wait' = NextWait(wait, policy)
            /\ attempt' = attempt + 1
            /\ rpc' = "call"
            /\ UNCHANGED ret
    /\ UNCHANGED <<op, policy, err, calls, errHist>>

\* ------------------------------------------------------------------------
\* Remote mode: Client
\* ------------------------------------------------------------------------
MaxCalls == 1

VARIABLES
    made,         \* NewClient: "none" before the call, then "made" or "failed"
    c,            \* Client.client and Client.sftpClient.sftp:
                  \*   "nil", "open" or "closed"
    orphan,       \* SSH connection dialled by the last failed NewClient:
                  \*   "none", "open" or "closed"
    fpc,          \* position inside the operation passed to withRetry
    ncalls,       \* number of DownloadFile / UploadFile calls started
    reconnects,   \* reconnect calls made during the current transfer
    sftpCalls,    \* SFTP requests issued during the current transfer, per kind
    creates,      \* remote files created during the current transfer
    faults,       \* failures of any kind met during the current transfer
    connOpFaults, \* connection-class failures of open, mkdir or create
    lastFirst,    \* outcome of the first request of the last SFTP step
    lastReconn,   \* outcome of the reconnect of the last SFTP step
    localOk,      \* the local directory of the current download is usable
    localFile     \* the files at the local path of the current transfer

clientVars == <<made, c, orphan, fpc, ncalls, reconnects, sftpCalls, creates,
                faults, connOpFaults, lastFirst, lastReconn, localOk,
                localFile>>

\* isConnectionError: the substrings that mark a connection-class error
connectionErrors ==
    {"connection lost", "connection reset", "broken pipe", "timeout",
     "connection refused", "no route to host", "network is unreachable",
     "i/o timeout"}

\* error messages an SFTP request can fail with
SftpErrors == {"connection lost", "broken pipe", "permission denied"}

isConnectionError(e) == e \in connectionErrors

\* outcomes of one SFTP request on the session of client cl
SftpOutcomes(cl) ==
    IF cl.sftp = "open" THEN {"ok"} \cup SftpErrors ELSE SftpErrors

\* what can happen inside NewClient
NewClientOutcomes == {"config", "dial", "sftp", "ok"}

\* variant: the SSH connection is not closed when the SFTP session fails
NewClientNoClose(outcome) ==
    CASE outcome = "config" -> [err |-> "config", client |-> "nil", sftp |-> "nil"]
      [] outcome = "dial"   -> [err |-> "dial", client |-> "nil", sftp |-> "nil"]
      [] outcome = "sftp"   -> [err |-> "sftp", client |-> "open", sftp |-> "nil"]
      [] OTHER              -> [err |-> "", client |-> "open", sftp |-> "open"]

\* NewClient: the connections it leaves behind
NewClient(outcome) ==
    CASE outcome = "config" -> [err |-> "config", client |-> "nil", sftp |-> "nil"]
      [] outcome = "dial"   -> [err |-> "dial", client |-> "nil", sftp |-> "nil"]
      [] outcome = "sftp"   -> [err |-> "sftp", client |-> "closed", sftp |-> "nil"]
      [] OTHER              -> [err |-> "", client |-> "open", sftp |-> "open"]

\* a handle after Close() was called on it, when it is not nil
Closed(h) == IF h = "nil" THEN "nil" ELSE "closed"

\* Client.Close
Close(cl) == [client |-> Closed(cl.client), sftp |-> Closed(cl.sftp)]

\* Client.reconnect: close both connections, then build a new client
reconnect(cl, outcome) ==
    LET old == [client |-> Closed(cl.client), sftp |-> Closed(cl.sftp)]
        nc  == NewClient(outcome)
    IN IF nc.err # ""
       THEN [err |-> nc.err, c |-> old,
             orphan |-> IF nc.client = "nil" THEN "none" ELSE nc.client]
       ELSE [err |-> "", c |-> [client |-> nc.client, sftp |-> nc.sftp],
             orphan |-> "none"]

\* Client.ensureConnection: reconnect when a handle is nil
NeedsReconnect(cl) == cl.client = "nil" \/ cl.sftp = "nil"

\* An SFTP step (open, mkdir or create) with its reconnect-and-retry branch.
\* first: outcome of the first request; nco: outcome of NewClient inside
\* reconnect; second: outcome of the request made after the reconnect.
\* The result gives the error returned, the client, the number of reconnects
\* and of requests made.
\* variant: a second reconnect is made when the request repeated after the
\* first one fails
openRemoteFileReconnectAgain(cl, first, nco, second) ==
    IF first = "ok"
    THEN [err |-> NilErr, c |-> cl, orphan |-> "none", reconnects |-> 0,
          requests |-> 1]
    ELSE IF isConnectionError(first)
    THEN LET r == reconnect(cl, nco) IN
         IF r.err # ""
         THEN [err |-> MkErr("open", first, r.err), c |-> r.c,
               orphan |-> r.orphan, reconnects |-> 1, requests |-> 1]
         ELSE IF second # "ok"
         THEN [err |-> MkErr("open", second, ""),
               c |-> reconnect(r.c, nco).c,
               orphan |-> r.orphan, reconnects |-> 2, requests |-> 2]
         ELSE [err |-> NilErr, c |-> r.c, orphan |-> r.orphan,
               reconnects |-> 1, requests |-> 2]
    ELSE [err |-> MkErr("open", first, ""), c |-> cl, orphan |-> "none",
          reconnects |-> 0, requests |-> 1]

\* Client.openRemoteFile
openRemoteFile(cl, first, nco, second) ==
    IF first = "ok"
    THEN [err |-> NilErr, c |-> cl, orphan |-> "none", reconnects |-> 0,
          requests |-> 1]
    ELSE IF isConnectionError(first)
    THEN LET r == reconnect(cl, nco) IN
         IF r.err # ""
         THEN [err |-> MkErr("open", first, r.err), c |-> r.c,
               orphan |-> r.orphan, reconnects |-> 1, requests |-> 1]
         ELSE IF second # "ok"
         THEN [err |-> MkErr("open", second, ""), c |-> r.c,
               orphan |-> r.orphan, reconnects |-> 1, requests |-> 2]
         ELSE [err |-> NilErr, c |-> r.c, orphan |-> r.orphan,
               reconnects |-> 1, requests |-> 2]
    ELSE [err |-> MkErr("open", first, ""), c |-> cl, orphan |-> "none",
          reconnects |-> 0, requests |-> 1]

\* variant: the error returned after a failed reconnect is that of the
\* request alone
ensureRemoteDirectorySwallow(cl, first, nco, second) ==
    IF first # "ok" /\ isConnectionError(first)
    THEN LET r == reconnect(cl, nco) IN
         IF r.err # ""
         THEN [err |-> MkErr("mkdir", first, ""), c |-> r.c,
               orphan |-> r.orphan, reconnects |-> 1, requests |-> 1]
         ELSE IF second # "ok"
         THEN [err |-> MkErr("mkdir", second, ""), c |-> r.c,
               orphan |-> r.orphan, reconnects |-> 1, requests |-> 2]
         ELSE [err |-> NilErr, c |-> r.c, orphan |-> r.orphan,
               reconnects |-> 1, requests |-> 2]
    ELSE IF first # "ok"
    THEN [err |-> MkErr("mkdir", first, ""), c |-> cl, orphan |-> "none",
          reconnects |-> 0, requests |-> 1]
    ELSE [err |-> NilErr, c |-> cl, orphan |-> "none", reconnects |-> 0,
          requests |-> 1]

\* Client.ensureRemoteDirectory
ensureRemoteDirectory(cl, first, nco, second) ==
    IF first # "ok" /\ isConnectionError(first)
    THEN LET r == reconnect(cl, nco) IN
         IF r.err # ""
         THEN [err |-> MkErr("mkdir", first, r.err), c |-> r.c,
               orphan |-> r.orphan, reconnects |-> 1, requests |-> 1]
         ELSE IF second # "ok"
         THEN [err |-> MkErr("mkdir", second, ""), c |-> r.c,
               orphan |-> r.orphan, reconnects |-> 1, requests |-> 2]
         ELSE [err |-> NilErr, c |-> r.c, orphan |-> r.orphan,
               reconnects |-> 1, requests |-> 2]
    ELSE IF first # "ok"
    THEN [err |-> MkErr("mkdir", first, ""), c |-> cl, orphan |-> "none",
          reconnects |-> 0, requests |-> 1]
    ELSE [err |-> NilErr, c |-> cl, orphan |-> "none", reconnects |-> 0,
          requests |-> 1]

\* variant: the creation is not retried after the reconnect
createRemoteFileNoRetry(cl, first, nco, second) ==
    IF first # "ok" /\ isConnectionError(first)
    THEN LET r == reconnect(cl, nco) IN
         [err |-> MkErr("create", first, r.err), c |-> r.c,
          orphan |-> r.orphan, reconnects |-> 1, requests |-> 1]
    ELSE IF first # "ok"
    THEN [err |-> MkErr("create", first, ""), c |-> cl, orphan |-> "none",
          reconnects |-> 0, requests |-> 1]
    ELSE [err |-> NilErr, c |-> cl, orphan |-> "none", reconnects |-> 0,
          requests |-> 1]

\* Client.createRemoteFile
createRemoteFile(cl, first, nco, second) ==
    IF first # "ok" /\ isConnectionError(first)
    THEN LET r == reconnect(cl, nco) IN
         IF r.err # ""
         THEN [err |-> MkErr("create", first, r.err), c |-> r.c,
               orphan |-> r.orphan, reconnects |-> 1, requests |-> 1]
         ELSE IF second # "ok"
         THEN [err |-> MkErr("create", second, ""), c |-> r.c,
               orphan |-> r.orphan, reconnects |-> 1, requests |-> 2]
         ELSE [err |-> NilErr, c |-> r.c, orphan |-> r.orphan,
               reconnects |-> 1, requests |-> 2]
    ELSE IF first # "ok"
    THEN [err |-> MkErr("create", first, ""), c |-> cl, orphan |-> "none",
          reconnects |-> 0, requests |-> 1]
    ELSE [err |-> NilErr, c |-> cl, orphan |-> "none", reconnects |-> 0,
          requests |-> 1]

SftpKinds == {"open", "mkdir", "create", "copy"}

Transfers == {"download", "upload"}

NilClient == [client |-> "nil", sftp |-> "nil"]

\* local path of a transfer; for a download of ProcessRemoteFile it is
\* filepath.Join(tempDir, relPath, base)
LocalPath == [dir |-> "tmp", name |-> <<"a", "png">>]

\* os.Stat: the files of d at path p
Stat(d, p) == {f \in d : f.path = p}

\* os.Remove
Remove(d, p) == {f \in d : f.path # p}

\* variant: the file is not decoded
IsValidFileNoDecode(d, p) ==
    \E f \in Stat(d, p) : f.size > 0

\* imageutils.IsValidFile: the file exists, is not empty and decodes
IsValidFile(d, p) ==
    \E f \in Stat(d, p) : f.size > 0 /\ f.decodable

\* what can be at the local path when UploadFile is called: nothing, an
\* empty file, a file that does not decode, or a good file
LocalFiles ==
    {{},
     {[path |-> LocalPath, size |-> 0, decodable |-> FALSE]},
     {[path |-> LocalPath, size |-> 1, decodable |-> FALSE]},
     {[path |-> LocalPath, size |-> 1, decodable |-> TRUE]}}

\* NewClient called by the service
NewClientCall ==
    /\ made = "none"
    /\ \E o \in NewClientOutcomes :
         LET nc == NewClient(o) IN
           IF nc.err # ""
           THEN /\ made' = "failed"
                /\ orphan' = IF nc.client = "nil" THEN "none" ELSE nc.client
                /\ UNCHANGED c
           ELSE /\ made' = "made"
                /\ c' = [client |-> nc.client, sftp |-> nc.sftp]
                /\ UNCHANGED orphan
    /\ UNCHANGED <<fpc, ncalls, reconnects, sftpCalls, creates, faults,
                   connOpFaults, lastFirst, lastReconn, localOk,
                   localFile>>
    /\ UNCHANGED retryVars

\* Client.Close called between two operations
CloseCall ==
    /\ made = "made"
    /\ rpc \in {"off", "returned"}
    /\ c' = Close(c)
    /\ UNCHANGED <<made, orphan, fpc, ncalls, reconnects, sftpCalls, creates,
                   faults, connOpFaults, lastFirst, lastReconn, localOk,
                   localFile>>
    /\ UNCHANGED retryVars

\* DownloadFile / UploadFile: withRetry is called with the default policy
StartTransfer(kind) ==
    /\ made = "made"
    /\ rpc \in {"off", "returned"}
    /\ ncalls < MaxCalls
    /\ ncalls' = ncalls + 1
    /\ op' = kind
    /\ policy' = newDefaultRetryConfig
    /\ rpc' = "call"
    /\ attempt' = 1
    /\ wait' = newDefaultRetryConfig.InitialWait
    /\ err' = NilErr
    /\ ret' = NoRet
    /\ calls' = 0
    /\ sleeps' = <<>>
    /\ errHist' = <<>>
    /\ reconnects' = 0
    /\ sftpCalls' = [k \in SftpKinds |-> 0]
    /\ creates' = 0
    /\ faults' = 0
    /\ connOpFaults' = 0
    /\ lastFirst' = "none"
    /\ lastReconn' = "none"
    /\ IF kind = "download"
       THEN localOk' \in BOOLEAN /\ localFile' = {}
       ELSE localOk' = TRUE /\ localFile' \in LocalFiles
    /\ UNCHANGED <<made, c, orphan, fpc>>

\* withRetry, lines 39-41: the loop calls the transfer closure
withRetryCallTransfer ==
    /\ rpc = "call"
    /\ op \in Transfers
    /\ IF LoopCondition(attempt, policy)
       THEN /\ calls' = calls + 1
            /\ rpc' = "fn"
            /\ fpc' = IF op = "download" THEN "mkdirLocal" ELSE "validate"
            /\ UNCHANGED ret
       ELSE /\ ret' = [returned |-> TRUE, err |-> err # NilErr, retries |-> 0,
                       wraps |-> err]
            /\ rpc' = "returned"
            /\ UNCHANGED <<calls, fpc>>
    /\ UNCHANGED <<op, policy, attempt, wait, err, sleeps, errHist>>
    /\ UNCHANGED <<made, c, orphan, ncalls, reconnects, sftpCalls, creates,
                   faults, connOpFaults, lastFirst, lastReconn, localOk,
                   localFile>>

\* the closure returns e to withRetry
FnReturns(e) ==
    /\ err' = e
    /\ fpc' = "off"
    /\ rpc' = "check"
    /\ UNCHANGED <<op, policy, attempt, wait, ret, calls, sleeps, errHist>>

\* the closure goes on to step next
FnGoesOn(next) ==
    /\ fpc' = next
    /\ UNCHANGED retryVars

\* DownloadFile closure: os.MkdirAll of the local directory
DownloadMkdirLocal ==
    /\ rpc = "fn" /\ fpc = "mkdirLocal"
    /\ IF localOk
       THEN FnGoesOn("ensure") /\ UNCHANGED faults
       ELSE FnReturns(MkErr("mkdirLocal", "local", "")) /\ faults' = faults + 1
    /\ UNCHANGED <<made, c, orphan, ncalls, reconnects, sftpCalls, creates,
                   connOpFaults, lastFirst, lastReconn, localOk,
                   localFile>>

\* UploadFile closure: validateLocalFile
validateLocalFile ==
    /\ rpc = "fn" /\ fpc = "validate"
    /\ IF IsValidFile(localFile, LocalPath)
       THEN FnGoesOn("ensure") /\ UNCHANGED faults
       ELSE FnReturns(MkErr("validate", "local", "")) /\ faults' = faults + 1
    /\ UNCHANGED <<made, c, orphan, ncalls, reconnects, sftpCalls, creates,
                   connOpFaults, lastFirst, lastReconn, localOk,
                   localFile>>

\* both closures: ensureConnection
ensureConnection ==
    /\ rpc = "fn" /\ fpc = "ensure"
    /\ IF NeedsReconnect(c)
       THEN \E nco \in NewClientOutcomes :
              LET r == reconnect(c, nco) IN
                /\ reconnects' = reconnects + 1
                /\ c' = r.c
                /\ orphan' = r.orphan
                /\ IF r.err # ""
                   THEN /\ FnReturns(MkErr("ensure", "", r.err))
                        /\ faults' = faults + 1
                   ELSE /\ FnGoesOn(IF op = "download" THEN "open" ELSE "mkdir")
                        /\ UNCHANGED faults
       ELSE /\ FnGoesOn(IF op = "download" THEN "open" ELSE "mkdir")
            /\ UNCHANGED <<c, orphan, reconnects, faults>>
    /\ UNCHANGED <<made, ncalls, sftpCalls, creates, connOpFaults, lastFirst,
                   lastReconn, localOk,
                   localFile>>

\* number of failures met by an SFTP step
StepFaults(res, first, nco, second) ==
    (IF first # "ok" THEN 1 ELSE 0)
    + (IF res.reconnects > 0 /\ NewClient(nco).err # "" THEN 1 ELSE 0)
    + (IF res.requests = 2 /\ second # "ok" THEN 1 ELSE 0)

\* number of connection-class failures of the requests of an SFTP step
StepConnFaults(res, first, second) ==
    (IF first # "ok" /\ isConnectionError(first) THEN 1 ELSE 0)
    + (IF res.requests = 2 /\ second # "ok" /\ isConnectionError(second)
       THEN 1 ELSE 0)

\* bookkeeping common to the three SFTP steps with a reconnect branch
SftpStepEffect(kind, res, first, nco, second) ==
    /\ c' = res.c
    /\ orphan' = IF res.reconnects > 0 THEN res.orphan ELSE orphan
    /\ reconnects' = reconnects + res.reconnects
    /\ sftpCalls' = [sftpCalls EXCEPT ![kind] = @ + res.requests]
    /\ faults' = faults + StepFaults(res, first, nco, second)
    /\ connOpFaults' = connOpFaults + StepConnFaults(res, first, second)
    /\ lastFirst' = first
    /\ lastReconn' = IF res.reconnects = 0 THEN "none"
                     ELSE IF NewClient(nco).err = "" THEN "ok" ELSE "failed"

\* DownloadFile closure: openRemoteFile
DownloadOpen ==
    /\ rpc = "fn" /\ fpc = "open"
    /\ \E first \in SftpOutcomes(c), nco \in NewClientOutcomes,
          second \in {"ok"} \cup SftpErrors :
         LET res == openRemoteFile(c, first, nco, second) IN
           /\ SftpStepEffect("open", res, first, nco, second)
           /\ IF res.err = NilErr THEN FnGoesOn("copy") ELSE FnReturns(res.err)
    /\ UNCHANGED <<made, ncalls, creates, localOk,
                   localFile>>

\* copyToLocalFile, lines 590-602: the files it can leave. os.Create
\* truncates the file at p; when io.Copy fails, os.Remove(p) is called while
\* the file is still open (its Close is deferred) and the result of the
\* removal is not looked at: on the builds where an open file cannot be
\* removed the part that was written stays
copyToLocalFileFiles(d, p, o) ==
    IF o = "ok"
    THEN {Remove(d, p) \cup {[path |-> p, size |-> 1, decodable |-> TRUE]}}
    ELSE {Remove(d, p),
          Remove(d, p) \cup {[path |-> p, size |-> 1, decodable |-> FALSE]}}

\* DownloadFile closure: copyToLocalFile; "local" is a failure of os.Create
copyToLocalFile ==
    /\ rpc = "fn" /\ fpc = "copy" /\ op = "download"
    /\ \E o \in SftpOutcomes(c) \cup {"local"} :
         IF o = "local"
         THEN /\ FnReturns(MkErr("copy", "local", ""))
              /\ faults' = faults + 1
              /\ UNCHANGED <<sftpCalls, localFile>>
         ELSE /\ sftpCalls' = [sftpCalls EXCEPT !["copy"] = @ + 1]
              /\ localFile' \in copyToLocalFileFiles(localFile, LocalPath, o)
              /\ IF o = "ok"
                 THEN FnReturns(NilErr) /\ UNCHANGED faults
                 ELSE FnReturns(MkErr("copy", o, "")) /\ faults' = faults + 1
    /\ UNCHANGED <<made, c, orphan, ncalls, reconnects, creates, connOpFaults,
                   lastFirst, lastReconn, localOk>>

\* UploadFile closure: ensureRemoteDirectory
UploadMkdir ==
    /\ rpc = "fn" /\ fpc = "mkdir"
    /\ \E first \in SftpOutcomes(c), nco \in NewClientOutcomes,
          second \in {"ok"} \cup SftpErrors :
         LET res == ensureRemoteDirectory(c, first, nco, second) IN
           /\ SftpStepEffect("mkdir", res, first, nco, second)
           /\ IF res.err = NilErr THEN FnGoesOn("create") ELSE FnReturns(res.err)
    /\ UNCHANGED <<made, ncalls, creates, localOk,
                   localFile>>

\* UploadFile closure: transferFileToRemote up to createRemoteFile
UploadCreate ==
    /\ rpc = "fn" /\ fpc = "create"
    /\ \E first \in SftpOutcomes(c), nco \in NewClientOutcomes,
          second \in {"ok"} \cup SftpErrors :
         LET res == createRemoteFile(c, first, nco, second) IN
           /\ SftpStepEffect("create", res, first, nco, second)
           /\ IF res.err = NilErr
              THEN FnGoesOn("copy") /\ creates' = creates + 1
              ELSE FnReturns(res.err) /\ UNCHANGED creates
    /\ UNCHANGED <<made, ncalls, localOk,
                   localFile>>

\* UploadFile closure: transferFileToRemote, the io.Copy to the remote file
transferFileToRemote ==
    /\ rpc = "fn" /\ fpc = "copy" /\ op = "upload"
    /\ \E o \in SftpOutcomes(c) :
         /\ sftpCalls' = [sftpCalls EXCEPT !["copy"] = @ + 1]
         /\ IF o = "ok"
            THEN FnReturns(NilErr) /\ UNCHANGED faults
            ELSE FnReturns(MkErr("copy", o, "")) /\ faults' = faults + 1
    /\ UNCHANGED <<made, c, orphan, ncalls, reconnects, creates, connOpFaults,
                   lastFirst, lastReconn, localOk,
                   localFile>>

\* ------------------------------------------------------------------------
\* Conversion of one file: paths, output files and the ConversionResult
\* ------------------------------------------------------------------------
MaxBytes == 2

VARIABLES
    cvPc,         \* position of the conversion call: "off", "ready", "done"
    source,       \* path of the source image: directory and file name
    codec,        \* what decoding and the encoders do for this file
    bytes,        \* number of bytes a non-empty output file gets
    res,          \* the ConversionResult returned (err: the error returned)
    disk          \* files in the directory of the source: path, size, decodable

convertVars == <<cvPc, source, codec, bytes, res, disk>>

\* a file name is the sequence of its dot-separated parts
SourceNames == {<<"a", "png">>, <<"b", "c", "jpg">>}

SourcePaths == {[dir |-> "in", name |-> n] : n \in SourceNames}

\* filepath.Ext: the last part of a name that has a dot
Ext(name) == IF Len(name) > 1 THEN <<name[Len(name)]>> ELSE <<>>

\* strings.TrimSuffix(name, suffix)
TrimSuffix(name, suffix) ==
    IF /\ Len(suffix) <= Len(name)
       /\ SubSeq(name, Len(name) - Len(suffix) + 1, Len(name)) = suffix
    THEN SubSeq(name, 1, Len(name) - Len(suffix))
    ELSE name

\* filepath.Join(dir, baseFileName + "." + ext)
OutputPath(dir, baseName, ext) == [dir |-> dir, name |-> Append(baseName, ext)]

\* baseFileName of Convert and ConvertImage: the name without its extension
BaseFileName(path) == TrimSuffix(path.name, Ext(path.name))

NoPath == [dir |-> "", name |-> <<>>]

\* the file an encoder leaves at path p, as a set of at most one file
EncodedFile(p, outcome, n) ==
    CASE outcome = "error"   -> {}
      [] outcome = "partial" -> {[path |-> p, size |-> 1, decodable |-> FALSE]}
      [] outcome = "empty"   -> {[path |-> p, size |-> 0, decodable |-> FALSE]}
      [] outcome = "corrupt" -> {[path |-> p, size |-> n, decodable |-> FALSE]}
      [] OTHER               -> {[path |-> p, size |-> n, decodable |-> TRUE]}

\* variant: the encoders also run in a dry run
ConvertFilesNoDryRun(cf, src, env, n) ==
    LET base == BaseFileName(src)
        webp == IF cf.WebPEnabled
                THEN EncodedFile(OutputPath(src.dir, base, "webp"), env.webp, n)
                ELSE {}
        avif == IF cf.AVIFEnabled /\ env.avif # "corrupt"
                THEN EncodedFile(OutputPath(src.dir, base, "avif"), env.avif, n)
                ELSE {}
    IN IF env.decode THEN webp \cup avif ELSE {}

\* Convert: the files it leaves in the directory of the source; the AVIF
\* output is removed only when it was encoded without error and is corrupt
ConvertFiles(cf, src, env, n) ==
    LET base == BaseFileName(src)
        webp == IF cf.WebPEnabled /\ ~cf.DryRun
                THEN EncodedFile(OutputPath(src.dir, base, "webp"), env.webp, n)
                ELSE {}
        avif == IF cf.AVIFEnabled /\ ~cf.DryRun /\ env.avif # "corrupt"
                THEN EncodedFile(OutputPath(src.dir, base, "avif"), env.avif, n)
                ELSE {}
    IN IF env.decode THEN webp \cup avif ELSE {}

\* size reported by os.Stat for the file at p, 0 when there is none
SizeAt(d, p) == IF Stat(d, p) = {} THEN 0 ELSE (CHOOSE f \in Stat(d, p) : TRUE).size

\* Convert: the ConversionResult with its paths and sizes
ConversionResult(cf, src, env, n) ==
    LET r    == Convert(cf, env)
        base == BaseFileName(src)
        wp   == OutputPath(src.dir, base, "webp")
        ap   == OutputPath(src.dir, base, "avif")
        d    == ConvertFiles(cf, src, env, n)
    IN [err           |-> r.err,
        WebPPath      |-> IF r.WebPAttempted THEN wp ELSE NoPath,
        WebPAttempted |-> r.WebPAttempted,
        WebPSuccess   |-> r.WebPSuccess,
        WebPSize      |-> IF r.WebPSuccess THEN SizeAt(d, wp) ELSE 0,
        AVIFPath      |-> IF r.AVIFAttempted THEN ap ELSE NoPath,
        AVIFAttempted |-> r.AVIFAttempted,
        AVIFSuccess   |-> r.AVIFSuccess,
        AVIFSize      |-> IF r.AVIFSuccess THEN SizeAt(d, ap) ELSE 0]

NoConversionResult ==
    [err |-> FALSE,
     WebPPath |-> NoPath, WebPAttempted |-> FALSE, WebPSuccess |-> FALSE,
     WebPSize |-> 0,
     AVIFPath |-> NoPath, AVIFAttempted |-> FALSE, AVIFSuccess |-> FALSE,
     AVIFSize |-> 0]

\* Service.convertToWebP: the error it returns
convertToWebP(cf, env) ==
    cf.WebPEnabled /\ ~cf.DryRun /\ env.webp \notin {"ok", "corrupt"}

\* Service.convertToAVIF: the error it returns
convertToAVIF(cf, env) ==
    cf.AVIFEnabled /\ ~cf.DryRun /\ env.avif # "ok"

\* Service.ConvertImage: the error it returns; the AVIF step is not reached
\* when decoding or the WebP step failed
ConvertImage(cf, env) ==
    \/ ~env.decode
    \/ convertToWebP(cf, env)
    \/ convertToAVIF(cf, env)

\* Service.ConvertImage: the files it leaves; convertToAVIF removes its output
\* when the encoder returned no error and the file is not valid
ConvertImageFiles(cf, src, env, n) ==
    LET base == BaseFileName(src)
        webp == IF cf.WebPEnabled /\ ~cf.DryRun
                THEN EncodedFile(OutputPath(src.dir, base, "webp"), env.webp, n)
                ELSE {}
        avif == IF /\ cf.AVIFEnabled /\ ~cf.DryRun
                   /\ ~convertToWebP(cf, env)
                   /\ env.avif # "corrupt"
                THEN EncodedFile(OutputPath(src.dir, base, "avif"), env.avif, n)
                ELSE {}
    IN IF env.decode THEN webp \cup avif ELSE {}

\* ImageConverter.Convert is called on the source
ConvertCall ==
    /\ cvPc = "ready"
    /\ cvPc' = "done"
    /\ res' = ConversionResult(cfg, source, codec, bytes)
    /\ disk' = disk \cup ConvertFiles(cfg, source, codec, bytes)
    /\ UNCHANGED <<source, codec, bytes>>

\* Service.ConvertImage is called on the source
ConvertImageCall ==
    /\ cvPc = "ready"
    /\ cvPc' = "doneImage"
    /\ res' = [NoConversionResult EXCEPT !.err = ConvertImage(cfg, codec)]
    /\ disk' = disk \cup ConvertImageFiles(cfg, source, codec, bytes)
    /\ UNCHANGED <<source, codec, bytes>>

NextConvert ==
    \/ ConvertCall
    \/ ConvertImageCall

\* ------------------------------------------------------------------------
\* Remote mode: remote.Service.Execute, processBatches, ProcessRemoteFile
\* ------------------------------------------------------------------------
MaxCandidates == 25
MaxFaults == 1

VARIABLES
    renabled,     \* RemoteConfig.Enabled
    rPc,          \* position of remote.Service.Execute
    rRet,         \* value returned by Execute: "none", "nil" or "error"
    reported,     \* logConversionResults has run
    total,        \* len(imageFiles)
    bpc,          \* position of processBatches
    bi,           \* loop variable i of processBatches
    bend,         \* end of the current batch
    fidx,         \* number of files of the list processFileBatch has handled
    fpcR,         \* position of ProcessRemoteFile for the current file
    webpUploaded, \* value returned by uploadWebPFile
    avifUploaded, \* value returned by uploadAVIFFile
    rstats,       \* config.ConversionStats of the remote run
    rtracker,     \* utils.MultiProgressTracker counters of the remote run
    pauseLog,     \* one entry per time.Sleep: 0 for the one of
                  \* findRemoteImages, else the number of the batch it precedes
    batches,      \* the batches formed: first and last position in the list
    statsLogs,    \* number of LogIntermediateStats calls
    attempted,    \* positions of the files handed to ProcessRemoteFile, in order
    finished,     \* number of ProcessRemoteFile calls that have returned
    steps,        \* steps executed for the current file, with their outcome
    lastErr,      \* what the last ProcessRemoteFile call returned
    nfaults,      \* number of failures injected so far
    execCalls     \* number of times ExecuteCommand has run a remote command

remoteVars == <<renabled, rPc, rRet, reported, total, bpc, bi, bend, fidx,
                fpcR, webpUploaded, avifUploaded, rstats, rtracker, pauseLog,
                batches, statsLogs, attempted, finished, steps, lastErr,
                nfaults, execCalls>>

execVars == <<renabled, rPc, rRet, reported, execCalls>>

batchVars == <<total, bpc, bi, bend, pauseLog, batches, statsLogs>>

fileVars == <<fidx, fpcR, webpUploaded, avifUploaded, rtracker, attempted,
              finished, steps, lastErr>>

RemoteCounters == Counters \cup {"DownloadFailed", "ConvertFailed",
                                 "UploadedFiles", "SkippedUploads"}

\* const batchSize of processBatches
batchSize == 10

\* the configurations a remote run can be started with
RemoteConfigs ==
    { [DefaultConfig EXCEPT !.WebPEnabled = we, !.AVIFEnabled = ae,
                            !.DryRun = dr] :
         we \in BOOLEAN, ae \in BOOLEAN, dr \in BOOLEAN }

\* the codecs work: the image decodes and both encoders write a good file
GoodCodec == [decode |-> TRUE, webp |-> "ok", avif |-> "ok"]

\* a failure of the codecs that ConvertImage meets: of the decoder, or of
\* an encoder that it runs
CodecFault(cf, env) ==
    \/ ~env.decode
    \/ cf.WebPEnabled /\ ~cf.DryRun /\ env.webp # "ok"
    \/ cf.AVIFEnabled /\ ~cf.DryRun /\ env.avif # "ok"
          /\ ~convertToWebP(cf, env)

\* what the codecs can do while failures may still be injected
CodecOutcomes(cf, n) ==
    {env \in EncoderOutcomes : n < MaxFaults \/ ~CodecFault(cf, env)}

\* DownloadFile / UploadFile as seen by the caller: the error returned after
\* the retries, and the state the reconnects leave the connections in
TransferOutcomes(n) ==
    {[err |-> FALSE, conn |-> "open"]} \cup
    (IF n < MaxFaults
     THEN {[err |-> TRUE, conn |-> "open"], [err |-> TRUE, conn |-> "closed"]}
     ELSE {})

\* FindRemoteImages: an error of the remote command, or the list found
FindRemoteImages == {[err |-> TRUE, n |-> 0]} \cup
                    {[err |-> FALSE, n |-> n] : n \in 0..MaxCandidates}

\* variant: the connection is not closed when Execute returns
DeferredCloseNone(cl) == cl

\* defer client.Close() of Execute
DeferredClose(cl) == Close(cl)

\* Execute, line 30: validateConfig
RemoteValidate ==
    /\ rPc = "start"
    /\ IF ~renabled
       THEN rPc' = "returned" /\ rRet' = "error"
       ELSE rPc' = "connect" /\ UNCHANGED rRet
    /\ UNCHANGED execCalls
    /\ UNCHANGED <<renabled, reported, batchVars, fileVars, rstats, nfaults>>
    /\ UNCHANGED <<made, c, orphan, disk>>

\* Execute, lines 43-48: NewClient; its failure ends the run
RemoteConnect ==
    /\ rPc = "connect"
    /\ \E o \in NewClientOutcomes :
         LET nc == NewClient(o) IN
           IF nc.err # ""
           THEN /\ made' = "failed"
                /\ orphan' = IF nc.client = "nil" THEN "none" ELSE nc.client
                /\ rPc' = "returned"
                /\ rRet' = "error"
                /\ UNCHANGED c
           ELSE /\ made' = "made"
                /\ c' = [client |-> nc.client, sftp |-> nc.sftp]
                /\ rPc' = "find"
                /\ UNCHANGED <<orphan, rRet>>
    /\ UNCHANGED execCalls
    /\ UNCHANGED <<renabled, reported, batchVars, fileVars, rstats, nfaults>>
    /\ UNCHANGED disk

\* Execute, lines 51-54: findRemoteImages; FindRemoteImages calls
\* ExecuteCommand once, which opens one session and runs the command once;
\* after a successful search findRemoteImages sleeps 5 seconds before the
\* processing starts
RemoteFind ==
    /\ rPc = "find"
    /\ execCalls' = execCalls + 1
    /\ \E found \in FindRemoteImages :
         IF found.err
         THEN /\ rPc' = "returned"
              /\ rRet' = "error"
              /\ c' = DeferredClose(c)
              /\ UNCHANGED <<total, pauseLog>>
         ELSE /\ rPc' = "tempdir"
              /\ total' = found.n
              /\ pauseLog' = Append(pauseLog, 0)
              /\ UNCHANGED <<rRet, c>>
    /\ UNCHANGED <<renabled, reported, bpc, bi, bend, batches, statsLogs,
                   fileVars, rstats, nfaults>>
    /\ UNCHANGED <<made, orphan, disk>>

\* Execute, lines 57-67: prepareTempDirectory, NewConversionStats, and the
\* call of processBatches
RemoteTempDir ==
    /\ rPc = "tempdir"
    /\ \E ok \in BOOLEAN :
         IF ~ok
         THEN /\ rPc' = "returned"
              /\ rRet' = "error"
              /\ c' = DeferredClose(c)
              /\ UNCHANGED bpc
         ELSE /\ rPc' = "batches"
              /\ bpc' = "loop"
              /\ UNCHANGED <<rRet, c>>
    /\ UNCHANGED execCalls
    /\ UNCHANGED <<renabled, reported, total, bi, bend, pauseLog, batches,
                   statsLogs, fileVars, rstats, nfaults>>
    /\ UNCHANGED <<made, orphan, disk>>

\* variant: the end of a batch is not clamped to the length of the list
BatchEndNoClamp(i, n) == i + batchSize

\* processBatches, lines 174-177: end of the batch that starts after i files
BatchEnd(i, n) == IF i + batchSize > n THEN n ELSE i + batchSize

\* processBatches, lines 173-188: one more batch; it is preceded by a sleep
\* of 5 seconds when it is not the first one
BatchStart ==
    /\ bpc = "loop"
    /\ bi < total
    /\ bend' = BatchEnd(bi, total)
    /\ batches' = Append(batches, <<bi + 1, BatchEnd(bi, total)>>)
    /\ pauseLog' = IF bi > 0 THEN Append(pauseLog, Len(batches) + 1)
                             ELSE pauseLog
    /\ bpc' = "files"
    /\ UNCHANGED <<total, bi, statsLogs>>
    /\ UNCHANGED <<execVars, fileVars, rstats, nfaults>>
    /\ UNCHANGED <<made, c, orphan, disk>>

\* variant: processFileBatch returns an error when a file of the batch failed
processFileBatchFails(failed) == failed

\* processFileBatch, line 224: it returns nil
processFileBatch(failed) == FALSE

\* processFileBatch has handled imageFiles[i:end]: processBatches logs the
\* intermediate statistics, manages memory and moves to the next batch; an
\* error of processFileBatch would end processBatches and Execute
BatchFinish ==
    /\ bpc = "files"
    /\ fpcR = "idle"
    /\ fidx >= bend
    /\ IF processFileBatch(lastErr \notin {"none", "nil"})
       THEN /\ bpc' = "failed"
            /\ rPc' = "returned"
            /\ rRet' = "error"
            /\ c' = DeferredClose(c)
            /\ UNCHANGED <<bi, statsLogs>>
       ELSE /\ bpc' = "loop"
            /\ bi' = bi + batchSize
            /\ statsLogs' = statsLogs + 1
            /\ UNCHANGED <<rPc, rRet, c>>
    /\ UNCHANGED execCalls
    /\ UNCHANGED <<renabled, reported, total, bend, pauseLog, batches,
                   fileVars, rstats, nfaults>>
    /\ UNCHANGED <<made, orphan, disk>>

\* processBatches, lines 199-202: the loop is over, tracker.Complete()
BatchesDone ==
    /\ bpc = "loop"
    /\ bi >= total
    /\ bpc' = "returned"
    /\ UNCHANGED <<total, bi, bend, pauseLog, batches, statsLogs>>
    /\ UNCHANGED <<execVars, fileVars, rstats, nfaults>>
    /\ UNCHANGED <<made, c, orphan, disk>>

\* Execute, lines 72-74: logConversionResults, return nil, deferred Close
RemoteReport ==
    /\ rPc = "batches"
    /\ bpc = "returned"
    /\ reported' = TRUE
    /\ rPc' = "returned"
    /\ rRet' = "nil"
    /\ c' = DeferredClose(c)
    /\ UNCHANGED execCalls
    /\ UNCHANGED <<renabled, batchVars, fileVars, rstats, nfaults>>
    /\ UNCHANGED <<made, orphan, disk>>

\* ProcessRemoteFile returns e to processFile, which counts the file in the
\* tracker; processFileBatch logs an error and goes on with the next file
FileReturns(e) ==
    /\ lastErr' = e
    /\ rtracker' = IF e = "nil"
                   THEN [rtracker EXCEPT !.processed = @ + 1,
                                         !.succeeded = @ + 1]
                   ELSE [rtracker EXCEPT !.processed = @ + 1,
                                         !.failed = @ + 1]
    /\ fidx' = fidx + 1
    /\ fpcR' = "idle"
    /\ finished' = finished + 1
    /\ webpUploaded' = FALSE
    /\ avifUploaded' = FALSE

\* variant: the next file may be started before the previous call returned
MayStartFileAnytime(p) == TRUE

\* processFileBatch calls processFile for one file at a time
MayStartFile(p) == p = "idle"

Connection(o) == [client |-> o.conn, sftp |-> o.conn]

\* variant: a failed download is counted once for each attempt of withRetry
CountDownloadFailedPerAttempt(st) ==
    [st EXCEPT !["DownloadFailed"] = @ + newDefaultRetryConfig.MaxRetries + 1]

\* ProcessRemoteFile, line 141: stats.DownloadFailed++ after DownloadFile
\* returned its error
CountDownloadFailed(st) == [st EXCEPT !["DownloadFailed"] = @ + 1]

\* ProcessRemoteFile, lines 127-142: the download of the next file of the
\* batch; a failure is counted and ends the processing of the file
FileDownload ==
    /\ bpc = "files"
    /\ MayStartFile(fpcR)
    /\ fidx < bend
    /\ attempted' = Append(attempted, fidx + 1)
    /\ \E o \in TransferOutcomes(nfaults) :
         /\ c' = Connection(o)
         /\ IF o.err
            THEN /\ rstats' = CountDownloadFailed(rstats)
                 /\ steps' = <<[step |-> "download", ok |-> FALSE]>>
                 /\ disk' = {}
                 /\ nfaults' = nfaults + 1
                 /\ FileReturns("download")
            ELSE /\ steps' = <<[step |-> "download", ok |-> TRUE]>>
                 /\ disk' = {[path |-> LocalPath, size |-> 1,
                              decodable |-> TRUE]}
                 /\ fpcR' = "convert"
                 /\ UNCHANGED <<rstats, nfaults, lastErr, rtracker, fidx,
                                finished, webpUploaded, avifUploaded>>
    /\ UNCHANGED <<execVars, batchVars>>
    /\ UNCHANGED <<made, orphan>>

\* ProcessRemoteFile, lines 145-154: ConvertImage; a failure is counted and
\* ends the processing of the file, otherwise TotalProcessed is incremented
FileConvert ==
    /\ fpcR = "convert"
    /\ \E env \in CodecOutcomes(cfg, nfaults) :
         /\ disk' = disk \cup ConvertImageFiles(cfg, LocalPath, env, 1)
         /\ nfaults' = IF CodecFault(cfg, env) THEN nfaults + 1 ELSE nfaults
         /\ IF ConvertImage(cfg, env)
            THEN /\ rstats' = [rstats EXCEPT !["ConvertFailed"] = @ + 1]
                 /\ steps' = Append(steps, [step |-> "convert", ok |-> FALSE])
                 /\ FileReturns("convert")
            ELSE /\ rstats' = [rstats EXCEPT !["TotalProcessed"] = @ + 1]
                 /\ steps' = Append(steps, [step |-> "convert", ok |-> TRUE])
                 /\ fpcR' = "uploadWebP"
                 /\ UNCHANGED <<lastErr, rtracker, fidx, finished,
                                webpUploaded, avifUploaded>>
    /\ UNCHANGED attempted
    /\ UNCHANGED <<execVars, batchVars>>
    /\ UNCHANGED <<made, c, orphan>>

\* uploadWebPFile / uploadAVIFFile for the output with extension ext: the
\* counters succ and fail are those of the format
UploadOutput(ext, succ, fail, next) ==
    LET p == OutputPath(LocalPath.dir,
                        TrimSuffix(LocalPath.name, Ext(LocalPath.name)), ext)
        enabled == IF ext = "webp" THEN cfg.WebPEnabled ELSE cfg.AVIFEnabled
        done(v) == /\ fpcR' = next
                   /\ IF ext = "webp"
                      THEN webpUploaded' = v /\ UNCHANGED avifUploaded
                      ELSE avifUploaded' = v /\ UNCHANGED webpUploaded
    IN IF ~enabled \/ Stat(disk, p) = {}
       THEN /\ done(FALSE)
            /\ UNCHANGED <<rstats, steps, c, nfaults>>
       ELSE IF ~IsValidFile(disk, p)
       THEN /\ done(FALSE)
            /\ rstats' = [rstats EXCEPT ![fail] = @ + 1,
                                        !["SkippedUploads"] = @ + 1]
            /\ UNCHANGED <<steps, c, nfaults>>
       ELSE \E o \in TransferOutcomes(nfaults) :
              /\ c' = Connection(o)
              /\ done(~o.err)
              /\ steps' = Append(steps, [step |-> "upload", ok |-> ~o.err])
              /\ IF o.err
                 THEN /\ rstats' = [rstats EXCEPT ![fail] = @ + 1]
                      /\ nfaults' = nfaults + 1
                 ELSE /\ rstats' = [rstats EXCEPT ![succ] = @ + 1,
                                             !["UploadedFiles"] = @ + 1]
                      /\ UNCHANGED nfaults

\* UploadConvertedFiles, line 175: uploadWebPFile
FileUploadWebP ==
    /\ fpcR = "uploadWebP"
    /\ UploadOutput("webp", "WebPSuccess", "WebPFailed", "uploadAVIF")
    /\ UNCHANGED <<fidx, rtracker, attempted, finished, lastErr>>
    /\ UNCHANGED <<execVars, batchVars>>
    /\ UNCHANGED <<made, orphan, disk>>

\* UploadConvertedFiles, line 176: uploadAVIFFile
FileUploadAVIF ==
    /\ fpcR = "uploadAVIF"
    /\ UploadOutput("avif", "AVIFSuccess", "AVIFFailed", "cleanup")
    /\ UNCHANGED <<fidx, rtracker, attempted, finished, lastErr>>
    /\ UNCHANGED <<execVars, batchVars>>
    /\ UNCHANGED <<made, orphan, disk>>

\* cleanupFiles(localPath, baseName): the source is removed, and the files
\* named baseName + ".webp" and baseName + ".avif" in its directory
cleanupFiles(d, localPath, baseName) ==
    Remove(Remove(Remove(d, localPath),
                  OutputPath(localPath.dir, baseName, "webp")),
           OutputPath(localPath.dir, baseName, "avif"))

\* ProcessRemoteFile, lines 160-166: cleanupFiles is called with the name of
\* the file, then the result of the uploads decides the value returned
FileCleanup ==
    /\ fpcR = "cleanup"
    /\ disk' = cleanupFiles(disk, LocalPath, LocalPath.name)
    /\ steps' = Append(steps, [step |-> "cleanup", ok |-> TRUE])
    /\ FileReturns(IF webpUploaded \/ avifUploaded THEN "nil" ELSE "upload")
    /\ UNCHANGED <<attempted, rstats, nfaults>>
    /\ UNCHANGED <<execVars, batchVars>>
    /\ UNCHANGED <<made, c, orphan>>

NextRemote ==
    \/ RemoteValidate
    \/ RemoteConnect
    \/ RemoteFind
    \/ RemoteTempDir
    \/ BatchStart
    \/ BatchFinish
    \/ BatchesDone
    \/ RemoteReport
    \/ FileDownload
    \/ FileConvert
    \/ FileUploadWebP
    \/ FileUploadAVIF
    \/ FileCleanup

\* ------------------------------------------------------------------------
\* The SSH dial timeout: LoadConfig, the -remote flag, remote.NewService,
\* remote.Service.validateConfig, NewClient and reconnect
\* ------------------------------------------------------------------------
VARIABLES
    dPc,          \* position of the run: "load", "flags", "service",
                  \*   "validate", "connect", "run" or "returned"
    remoteYaml,   \* remote.enabled and remote.timeout of the configuration file
    remoteMode,   \* the -remote flag
    gRemote,      \* config.Remote of the global configuration
    sConfig,      \* Service.config, which is also Client.config
    dialed        \* timeouts of the ssh.Dial calls made, in order

dialVars == <<dPc, remoteYaml, remoteMode, gRemote, sConfig, dialed>>

MaxDials == 3

\* remote.timeout values of a configuration file, in seconds
ConfiguredTimeouts == {-1, 0, 30, 59, 60, 61, 120}

\* variant: the service keeps the timeout of its configuration
ServiceValidateTimeoutAsGiven(rc) == rc

\* config.validateConfig: the timeout of an enabled remote configuration
ValidateRemoteTimeout(rc) ==
    IF rc.Enabled /\ rc.Timeout < 60 THEN [rc EXCEPT !.Timeout = 60] ELSE rc

\* remote.Service.validateConfig: the timeout of the service's configuration
ServiceValidateTimeout(rc) ==
    IF rc.Timeout < 60 THEN [rc EXCEPT !.Timeout = 60] ELSE rc

\* createSSHClientConfig: the Timeout of the ssh.ClientConfig, in seconds
createSSHClientConfig(rc) == rc.Timeout

\* NewClient: the dials made once createSSHClientConfig has succeeded
Dial(ds, rc, outcome) ==
    IF outcome = "config" THEN ds ELSE Append(ds, createSSHClientConfig(rc))

\* LoadConfig: yaml.Unmarshal over the defaults, then validateConfig
DialLoadConfig ==
    /\ dPc = "load"
    /\ gRemote' = ValidateRemoteTimeout(remoteYaml)
    /\ dPc' = "flags"
    /\ UNCHANGED <<remoteYaml, remoteMode, sConfig, dialed>>

\* initializeApplication: SetRemoteMode(true) when -remote was given; main
\* then runs the remote mode when config.Remote.Enabled
DialFlags ==
    /\ dPc = "flags"
    /\ gRemote' = IF remoteMode THEN [gRemote EXCEPT !.Enabled = TRUE]
                  ELSE gRemote
    /\ dPc' = IF gRemote'.Enabled THEN "service" ELSE "returned"
    /\ UNCHANGED <<remoteYaml, remoteMode, sConfig, dialed>>

\* remote.NewService: config.GetRemoteConfig() copies the global configuration
DialNewService ==
    /\ dPc = "service"
    /\ sConfig' = gRemote
    /\ dPc' = "validate"
    /\ UNCHANGED <<remoteYaml, remoteMode, gRemote, dialed>>

\* remote.Service.validateConfig at the start of Execute
DialValidateConfig ==
    /\ dPc = "validate"
    /\ IF ~sConfig.Enabled
       THEN dPc' = "returned" /\ UNCHANGED sConfig
       ELSE dPc' = "connect" /\ sConfig' = ServiceValidateTimeout(sConfig)
    /\ UNCHANGED <<remoteYaml, remoteMode, gRemote, dialed>>

\* Execute: NewClient(s.config)
DialNewClient ==
    /\ dPc = "connect"
    /\ \E o \in NewClientOutcomes :
         /\ dialed' = Dial(dialed, sConfig, o)
         /\ dPc' = IF NewClient(o).err # "" THEN "returned" ELSE "run"
    /\ UNCHANGED <<remoteYaml, remoteMode, gRemote, sConfig>>

\* Client.reconnect during the run: NewClient(c.config)
DialReconnect ==
    /\ dPc = "run"
    /\ Len(dialed) < MaxDials
    /\ \E o \in NewClientOutcomes : dialed' = Dial(dialed, sConfig, o)
    /\ UNCHANGED <<dPc, remoteYaml, remoteMode, gRemote, sConfig>>

\* Execute returns
DialReturn ==
    /\ dPc = "run"
    /\ dPc' = "returned"
    /\ UNCHANGED <<remoteYaml, remoteMode, gRemote, sConfig, dialed>>

\* ------------------------------------------------------------------------
\* Supported extensions: LoadConfig and IsSupportedExtension
\* ------------------------------------------------------------------------
VARIABLES
    xPc,                 \* "load" before LoadConfig, then "loaded"
    extensions,          \* config.Input.SupportedExtensions
    supportedExtensions, \* keys of the supportedExtensions map
    answers              \* IsSupportedExtension calls made: argument and result

extVars == <<xPc, extensions, supportedExtensions, answers>>

MaxQueries == 2

\* a string is the sequence of its characters
Lower == [ch \in {".", "j", "J", "p", "P", "g", "G", "n", "N"} |->
            CASE ch = "J" -> "j"
              [] ch = "P" -> "p"
              [] ch = "G" -> "g"
              [] ch = "N" -> "n"
              [] OTHER    -> ch]

\* strings.ToLower
ToLower(s) == [i \in DOMAIN s |-> Lower[s[i]]]

\* spellings of the extensions jpg and png
Spellings == {<<".", "j", "p", "g">>, <<"j", "p", "g">>,
              <<".", "J", "P", "G">>, <<"J", "P", "G">>,
              <<".", "p", "n", "g">>, <<"P", "N", "G">>}

\* supported_extensions lists of a configuration file
ExtensionLists == {<<e>> : e \in Spellings} \cup
                  {<< <<".", "j", "p", "g">>, <<".", "p", "n", "g">> >>}

\* LoadConfig: the keys of the supportedExtensions map
LoadExtensions(exts) == {ToLower(exts[i]) : i \in DOMAIN exts}

\* IsSupportedExtension
IsSupportedExtension(keys, ext) == ToLower(ext) \in keys

ExtLoadConfig ==
    /\ xPc = "load"
    /\ supportedExtensions' = LoadExtensions(extensions)
    /\ xPc' = "loaded"
    /\ UNCHANGED <<extensions, answers>>

ExtQuery ==
    /\ xPc = "loaded"
    /\ Cardinality(answers) < MaxQueries
    /\ \E e \in Spellings :
         answers' = answers \cup
             {[ext |-> e, ok |-> IsSupportedExtension(supportedExtensions, e)]}
    /\ UNCHANGED <<xPc, extensions, supportedExtensions>>

\* ------------------------------------------------------------------------
\* Specifications
\* ------------------------------------------------------------------------
vars == <<localVars, retryVars, clientVars, convertVars, remoteVars,
         dialVars, extVars>>

\* local.Service.Execute is about to run with a loaded configuration;
\* no retry and no remote client exist
InitLocal ==
    /\ cfg \in LocalConfigs
    /\ execPc = "start"
    /\ execRet = "none"
    /\ summaryLogged = FALSE
    /\ nfiles = 0
    /\ mainPc = "off"
    /\ idx = 0
    /\ semaphore = 0
    /\ wg = 0
    /\ errorCh = <<>>
    /\ pfRet = NoReturn
    /\ pc = [f \in Files |-> "idle"]
    /\ result = [f \in Files |-> NoResult]
    /\ tmp = [f \in Files |-> 0]
    /\ stats = [k \in Counters |-> 0]
    /\ tracker = [processed |-> 0, succeeded |-> 0, failed |-> 0]
    /\ ran = [f \in Files |-> 0]
    /\ issued = [k \in Counters |-> 0]
    /\ configured = cfg.Workers
    /\ observed = [f \in Files |-> 0]
    /\ discovered = "none"
    /\ loaded = [f \in Files |-> "none"]
    /\ op = "none"
    /\ policy = newDefaultRetryConfig
    /\ rpc = "off"
    /\ attempt = 0
    /\ wait = 0
    /\ err = NilErr
    /\ ret = NoRet
    /\ calls = 0
    /\ sleeps = <<>>
    /\ errHist = <<>>
    /\ made = "none"
    /\ c = NilClient
    /\ orphan = "none"
    /\ fpc = "off"
    /\ ncalls = 0
    /\ reconnects = 0
    /\ sftpCalls = [k \in SftpKinds |-> 0]
    /\ creates = 0
    /\ faults = 0
    /\ connOpFaults = 0
    /\ lastFirst = "none"
    /\ lastReconn = "none"
    /\ localOk = TRUE
    /\ localFile = {}
    /\ cvPc = "off"
    /\ source = LocalPath
    /\ codec = GoodCodec
    /\ bytes = 1
    /\ res = NoConversionResult
    /\ disk = {}
    /\ renabled = FALSE
    /\ rPc = "off"
    /\ rRet = "none"
    /\ reported = FALSE
    /\ total = 0
    /\ bpc = "off"
    /\ bi = 0
    /\ bend = 0
    /\ fidx = 0
    /\ fpcR = "idle"
    /\ webpUploaded = FALSE
    /\ avifUploaded = FALSE
    /\ rstats = [k \in RemoteCounters |-> 0]
    /\ rtracker = [processed |-> 0, succeeded |-> 0, failed |-> 0]
    /\ pauseLog = <<>>
    /\ batches = <<>>
    /\ statsLogs = 0
    /\ attempted = <<>>
    /\ finished = 0
    /\ steps = <<>>
    /\ lastErr = "none"
    /\ nfaults = 0
    /\ execCalls = 0
    /\ dPc = "returned"
    /\ remoteYaml = [Enabled |-> FALSE, Timeout |-> 60]
    /\ remoteMode = FALSE
    /\ gRemote = [Enabled |-> FALSE, Timeout |-> 60]
    /\ sConfig = [Enabled |-> FALSE, Timeout |-> 60]
    /\ dialed = <<>>
    /\ xPc = "loaded"
    /\ extensions = <<>>
    /\ supportedExtensions = {}
    /\ answers = {}

\* a local run
SpecLocal == InitLocal /\
    [][NextLocal /\ UNCHANGED <<retryVars, clientVars, convertVars,
                                remoteVars, dialVars, extVars>>]_vars

\* worker counts of a configuration file that validateConfig adjusts
NonPositiveWorkers == {-1, 0}

\* local.Service.Execute is about to run with a configuration loaded from
\* a file whose worker count is not positive
InitWorkers ==
    /\ configured \in NonPositiveWorkers
    /\ cfg \in {[k EXCEPT !.Workers = validateConfig(configured)] :
                  k \in LocalConfigs}
    /\ execPc = "start"
    /\ execRet = "none"
    /\ summaryLogged = FALSE
    /\ nfiles = 0
    /\ mainPc = "off"
    /\ idx = 0
    /\ semaphore = 0
    /\ wg = 0
    /\ errorCh = <<>>
    /\ pfRet = NoReturn
    /\ pc = [f \in Files |-> "idle"]
    /\ result = [f \in Files |-> NoResult]
    /\ tmp = [f \in Files |-> 0]
    /\ stats = [k \in Counters |-> 0]
    /\ tracker = [processed |-> 0, succeeded |-> 0, failed |-> 0]
    /\ ran = [f \in Files |-> 0]
    /\ issued = [k \in Counters |-> 0]
    /\ observed = [f \in Files |-> 0]
    /\ discovered = "none"
    /\ loaded = [f \in Files |-> "none"]
    /\ op = "none"
    /\ policy = newDefaultRetryConfig
    /\ rpc = "off"
    /\ attempt = 0
    /\ wait = 0
    /\ err = NilErr
    /\ ret = NoRet
    /\ calls = 0
    /\ sleeps = <<>>
    /\ errHist = <<>>
    /\ made = "none"
    /\ c = NilClient
    /\ orphan = "none"
    /\ fpc = "off"
    /\ ncalls = 0
    /\ reconnects = 0
    /\ sftpCalls = [k \in SftpKinds |-> 0]
    /\ creates = 0
    /\ faults = 0
    /\ connOpFaults = 0
    /\ lastFirst = "none"
    /\ lastReconn = "none"
    /\ localOk = TRUE
    /\ localFile = {}
    /\ cvPc = "off"
    /\ source = LocalPath
    /\ codec = GoodCodec
    /\ bytes = 1
    /\ res = NoConversionResult
    /\ disk = {}
    /\ renabled = FALSE
    /\ rPc = "off"
    /\ rRet = "none"
    /\ reported = FALSE
    /\ total = 0
    /\ bpc = "off"
    /\ bi = 0
    /\ bend = 0
    /\ fidx = 0
    /\ fpcR = "idle"
    /\ webpUploaded = FALSE
    /\ avifUploaded = FALSE
    /\ rstats = [k \in RemoteCounters |-> 0]
    /\ rtracker = [processed |-> 0, succeeded |-> 0, failed |-> 0]
    /\ pauseLog = <<>>
    /\ batches = <<>>
    /\ statsLogs = 0
    /\ attempted = <<>>
    /\ finished = 0
    /\ steps = <<>>
    /\ lastErr = "none"
    /\ nfaults = 0
    /\ execCalls = 0
    /\ dPc = "returned"
    /\ remoteYaml = [Enabled |-> FALSE, Timeout |-> 60]
    /\ remoteMode = FALSE
    /\ gRemote = [Enabled |-> FALSE, Timeout |-> 60]
    /\ sConfig = [Enabled |-> FALSE, Timeout |-> 60]
    /\ dialed = <<>>
    /\ xPc = "loaded"
    /\ extensions = <<>>
    /\ supportedExtensions = {}
    /\ answers = {}

\* a local run whose configuration file gives a worker count <= 0
SpecWorkers == InitWorkers /\
    [][NextLocal /\ UNCHANGED <<retryVars, clientVars, convertVars,
                                remoteVars, dialVars, extVars>>]_vars

\* number of files of a ProcessFiles call whose tasks share the counters
MaxRaceFiles == 3

RaceFiles == 1..MaxRaceFiles

NextRace ==
    \/ Dispatch
    \/ LoopDone
    \/ ProcessFilesReturn
    \/ ExecuteFinish
    \/ \E f \in DOMAIN pc : ConvertStep(f)
    \/ \E f \in DOMAIN pc : ReadCounter(f)
    \/ \E f \in DOMAIN pc : WriteCounter(f)
    \/ \E f \in DOMAIN pc : TrackSuccess(f)
    \/ \E f \in DOMAIN pc : SendError(f)
    \/ \E f \in DOMAIN pc : ReleaseSlot(f)
    \/ \E f \in DOMAIN pc : WgDone(f)

\* Execute has found MaxRaceFiles files and calls ProcessFiles
InitRace ==
    /\ cfg \in {k \in LocalConfigs : ~k.DryRun}
    /\ execPc = "processing"
    /\ execRet = "none"
    /\ summaryLogged = FALSE
    /\ nfiles = MaxRaceFiles
    /\ mainPc = "loop"
    /\ idx = 0
    /\ semaphore = 0
    /\ wg = 0
    /\ errorCh = <<>>
    /\ pfRet = NoReturn
    /\ pc = [f \in RaceFiles |-> "idle"]
    /\ result = [f \in RaceFiles |-> NoResult]
    /\ tmp = [f \in RaceFiles |-> 0]
    /\ stats = [k \in Counters |-> 0]
    /\ tracker = [processed |-> 0, succeeded |-> 0, failed |-> 0]
    /\ ran = [f \in RaceFiles |-> 0]
    /\ issued = [k \in Counters |-> 0]
    /\ configured = cfg.Workers
    /\ observed = [f \in RaceFiles |-> 0]
    /\ discovered = "files"
    /\ loaded = [f \in RaceFiles |-> "none"]
    /\ op = "none"
    /\ policy = newDefaultRetryConfig
    /\ rpc = "off"
    /\ attempt = 0
    /\ wait = 0
    /\ err = NilErr
    /\ ret = NoRet
    /\ calls = 0
    /\ sleeps = <<>>
    /\ errHist = <<>>
    /\ made = "none"
    /\ c = NilClient
    /\ orphan = "none"
    /\ fpc = "off"
    /\ ncalls = 0
    /\ reconnects = 0
    /\ sftpCalls = [k \in SftpKinds |-> 0]
    /\ creates = 0
    /\ faults = 0
    /\ connOpFaults = 0
    /\ lastFirst = "none"
    /\ lastReconn = "none"
    /\ localOk = TRUE
    /\ localFile = {}
    /\ cvPc = "off"
    /\ source = LocalPath
    /\ codec = GoodCodec
    /\ bytes = 1
    /\ res = NoConversionResult
    /\ disk = {}
    /\ renabled = FALSE
    /\ rPc = "off"
    /\ rRet = "none"
    /\ reported = FALSE
    /\ total = 0
    /\ bpc = "off"
    /\ bi = 0
    /\ bend = 0
    /\ fidx = 0
    /\ fpcR = "idle"
    /\ webpUploaded = FALSE
    /\ avifUploaded = FALSE
    /\ rstats = [k \in RemoteCounters |-> 0]
    /\ rtracker = [processed |-> 0, succeeded |-> 0, failed |-> 0]
    /\ pauseLog = <<>>
    /\ batches = <<>>
    /\ statsLogs = 0
    /\ attempted = <<>>
    /\ finished = 0
    /\ steps = <<>>
    /\ lastErr = "none"
    /\ nfaults = 0
    /\ execCalls = 0
    /\ dPc = "returned"
    /\ remoteYaml = [Enabled |-> FALSE, Timeout |-> 60]
    /\ remoteMode = FALSE
    /\ gRemote = [Enabled |-> FALSE, Timeout |-> 60]
    /\ sConfig = [Enabled |-> FALSE, Timeout |-> 60]
    /\ dialed = <<>>
    /\ xPc = "loaded"
    /\ extensions = <<>>
    /\ supportedExtensions = {}
    /\ answers = {}

\* ProcessFiles over MaxRaceFiles files
SpecRace == InitRace /\
    [][NextRace /\ UNCHANGED <<retryVars, clientVars, convertVars,
                               remoteVars, dialVars, extVars>>]_vars

NextRetry ==
    \/ withRetryCall
    \/ withRetryResult

\* withRetry has been called with a generic operation and a policy
InitRetry ==
    /\ cfg = DefaultConfig
    /\ execPc = "off"
    /\ execRet = "none"
    /\ summaryLogged = FALSE
    /\ nfiles = 0
    /\ mainPc = "off"
    /\ idx = 0
    /\ semaphore = 0
    /\ wg = 0
    /\ errorCh = <<>>
    /\ pfRet = NoReturn
    /\ pc = [f \in Files |-> "idle"]
    /\ result = [f \in Files |-> NoResult]
    /\ tmp = [f \in Files |-> 0]
    /\ stats = [k \in Counters |-> 0]
    /\ tracker = [processed |-> 0, succeeded |-> 0, failed |-> 0]
    /\ ran = [f \in Files |-> 0]
    /\ issued = [k \in Counters |-> 0]
    /\ configured = cfg.Workers
    /\ observed = [f \in Files |-> 0]
    /\ discovered = "none"
    /\ loaded = [f \in Files |-> "none"]
    /\ op = "generic"
    /\ policy \in RetryPolicies
    /\ rpc = "call"
    /\ attempt = 1
    /\ wait = policy.InitialWait
    /\ err = NilErr
    /\ ret = NoRet
    /\ calls = 0
    /\ sleeps = <<>>
    /\ errHist = <<>>
    /\ made = "none"
    /\ c = NilClient
    /\ orphan = "none"
    /\ fpc = "off"
    /\ ncalls = 0
    /\ reconnects = 0
    /\ sftpCalls = [k \in SftpKinds |-> 0]
    /\ creates = 0
    /\ faults = 0
    /\ connOpFaults = 0
    /\ lastFirst = "none"
    /\ lastReconn = "none"
    /\ localOk = TRUE
    /\ localFile = {}
    /\ cvPc = "off"
    /\ source = LocalPath
    /\ codec = GoodCodec
    /\ bytes = 1
    /\ res = NoConversionResult
    /\ disk = {}
    /\ renabled = FALSE
    /\ rPc = "off"
    /\ rRet = "none"
    /\ reported = FALSE
    /\ total = 0
    /\ bpc = "off"
    /\ bi = 0
    /\ bend = 0
    /\ fidx = 0
    /\ fpcR = "idle"
    /\ webpUploaded = FALSE
    /\ avifUploaded = FALSE
    /\ rstats = [k \in RemoteCounters |-> 0]
    /\ rtracker = [processed |-> 0, succeeded |-> 0, failed |-> 0]
    /\ pauseLog = <<>>
    /\ batches = <<>>
    /\ statsLogs = 0
    /\ attempted = <<>>
    /\ finished = 0
    /\ steps = <<>>
    /\ lastErr = "none"
    /\ nfaults = 0
    /\ execCalls = 0
    /\ dPc = "returned"
    /\ remoteYaml = [Enabled |-> FALSE, Timeout |-> 60]
    /\ remoteMode = FALSE
    /\ gRemote = [Enabled |-> FALSE, Timeout |-> 60]
    /\ sConfig = [Enabled |-> FALSE, Timeout |-> 60]
    /\ dialed = <<>>
    /\ xPc = "loaded"
    /\ extensions = <<>>
    /\ supportedExtensions = {}
    /\ answers = {}

\* one call of withRetry with a generic operation
SpecRetry == InitRetry /\
    [][NextRetry /\ UNCHANGED <<localVars, clientVars, convertVars,
                                remoteVars, dialVars, extVars>>]_vars

\* retry policies whose InitialWait may be larger than their MaxWait
WideRetryPolicies ==
    { [MaxRetries |-> r, InitialWait |-> i, MaxWait |-> m, Factor |-> f] :
        r \in 0..MaxRetriesBound, i \in {2, 10, 40}, m \in {5, 30},
        f \in {1, 2} }

InitRetryWide ==
    /\ cfg = DefaultConfig
    /\ execPc = "off"
    /\ execRet = "none"
    /\ summaryLogged = FALSE
    /\ nfiles = 0
    /\ mainPc = "off"
    /\ idx = 0
    /\ semaphore = 0
    /\ wg = 0
    /\ errorCh = <<>>
    /\ pfRet = NoReturn
    /\ pc = [f \in Files |-> "idle"]
    /\ result = [f \in Files |-> NoResult]
    /\ tmp = [f \in Files |-> 0]
    /\ stats = [k \in Counters |-> 0]
    /\ tracker = [processed |-> 0, succeeded |-> 0, failed |-> 0]
    /\ ran = [f \in Files |-> 0]
    /\ issued = [k \in Counters |-> 0]
    /\ configured = cfg.Workers
    /\ observed = [f \in Files |-> 0]
    /\ discovered = "none"
    /\ loaded = [f \in Files |-> "none"]
    /\ op = "generic"
    /\ policy \in WideRetryPolicies
    /\ rpc = "call"
    /\ attempt = 1
    /\ wait = policy.InitialWait
    /\ err = NilErr
    /\ ret = NoRet
    /\ calls = 0
    /\ sleeps = <<>>
    /\ errHist = <<>>
    /\ made = "none"
    /\ c = NilClient
    /\ orphan = "none"
    /\ fpc = "off"
    /\ ncalls = 0
    /\ reconnects = 0
    /\ sftpCalls = [k \in SftpKinds |-> 0]
    /\ creates = 0
    /\ faults = 0
    /\ connOpFaults = 0
    /\ lastFirst = "none"
    /\ lastReconn = "none"
    /\ localOk = TRUE
    /\ localFile = {}
    /\ cvPc = "off"
    /\ source = LocalPath
    /\ codec = GoodCodec
    /\ bytes = 1
    /\ res = NoConversionResult
    /\ disk = {}
    /\ renabled = FALSE
    /\ rPc = "off"
    /\ rRet = "none"
    /\ reported = FALSE
    /\ total = 0
    /\ bpc = "off"
    /\ bi = 0
    /\ bend = 0
    /\ fidx = 0
    /\ fpcR = "idle"
    /\ webpUploaded = FALSE
    /\ avifUploaded = FALSE
    /\ rstats = [k \in RemoteCounters |-> 0]
    /\ rtracker = [processed |-> 0, succeeded |-> 0, failed |-> 0]
    /\ pauseLog = <<>>
    /\ batches = <<>>
    /\ statsLogs = 0
    /\ attempted = <<>>
    /\ finished = 0
    /\ steps = <<>>
    /\ lastErr = "none"
    /\ nfaults = 0
    /\ execCalls = 0
    /\ dPc = "returned"
    /\ remoteYaml = [Enabled |-> FALSE, Timeout |-> 60]
    /\ remoteMode = FALSE
    /\ gRemote = [Enabled |-> FALSE, Timeout |-> 60]
    /\ sConfig = [Enabled |-> FALSE, Timeout |-> 60]
    /\ dialed = <<>>
    /\ xPc = "loaded"
    /\ extensions = <<>>
    /\ supportedExtensions = {}
    /\ answers = {}

\* one call of withRetry with a generic operation and any policy
SpecRetryWide == InitRetryWide /\
    [][NextRetry /\ UNCHANGED <<localVars, clientVars, convertVars,
                                remoteVars, dialVars, extVars>>]_vars

NextClient ==
    \/ NewClientCall
    \/ CloseCall
    \/ \E kind \in Transfers : StartTransfer(kind)
    \/ withRetryCallTransfer
    \/ withRetryResult /\ UNCHANGED clientVars
    \/ DownloadMkdirLocal
    \/ validateLocalFile
    \/ ensureConnection
    \/ DownloadOpen
    \/ copyToLocalFile
    \/ UploadMkdir
    \/ UploadCreate
    \/ transferFileToRemote

\* NewClient has not been called yet; no transfer is in progress
InitClient ==
    /\ cfg = DefaultConfig
    /\ execPc = "off"
    /\ execRet = "none"
    /\ summaryLogged = FALSE
    /\ nfiles = 0
    /\ mainPc = "off"
    /\ idx = 0
    /\ semaphore = 0
    /\ wg = 0
    /\ errorCh = <<>>
    /\ pfRet = NoReturn
    /\ pc = [f \in Files |-> "idle"]
    /\ result = [f \in Files |-> NoResult]
    /\ tmp = [f \in Files |-> 0]
    /\ stats = [k \in Counters |-> 0]
    /\ tracker = [processed |-> 0, succeeded |-> 0, failed |-> 0]
    /\ ran = [f \in Files |-> 0]
    /\ issued = [k \in Counters |-> 0]
    /\ configured = cfg.Workers
    /\ observed = [f \in Files |-> 0]
    /\ discovered = "none"
    /\ loaded = [f \in Files |-> "none"]
    /\ op = "none"
    /\ policy = newDefaultRetryConfig
    /\ rpc = "off"
    /\ attempt = 0
    /\ wait = 0
    /\ err = NilErr
    /\ ret = NoRet
    /\ calls = 0
    /\ sleeps = <<>>
    /\ errHist = <<>>
    /\ made = "none"
    /\ c = NilClient
    /\ orphan = "none"
    /\ fpc = "off"
    /\ ncalls = 0
    /\ reconnects = 0
    /\ sftpCalls = [k \in SftpKinds |-> 0]
    /\ creates = 0
    /\ faults = 0
    /\ connOpFaults = 0
    /\ lastFirst = "none"
    /\ lastReconn = "none"
    /\ localOk = TRUE
    /\ localFile = {}
    /\ cvPc = "off"
    /\ source = LocalPath
    /\ codec = GoodCodec
    /\ bytes = 1
    /\ res = NoConversionResult
    /\ disk = {}
    /\ renabled = FALSE
    /\ rPc = "off"
    /\ rRet = "none"
    /\ reported = FALSE
    /\ total = 0
    /\ bpc = "off"
    /\ bi = 0
    /\ bend = 0
    /\ fidx = 0
    /\ fpcR = "idle"
    /\ webpUploaded = FALSE
    /\ avifUploaded = FALSE
    /\ rstats = [k \in RemoteCounters |-> 0]
    /\ rtracker = [processed |-> 0, succeeded |-> 0, failed |-> 0]
    /\ pauseLog = <<>>
    /\ batches = <<>>
    /\ statsLogs = 0
    /\ attempted = <<>>
    /\ finished = 0
    /\ steps = <<>>
    /\ lastErr = "none"
    /\ nfaults = 0
    /\ execCalls = 0
    /\ dPc = "returned"
    /\ remoteYaml = [Enabled |-> FALSE, Timeout |-> 60]
    /\ remoteMode = FALSE
    /\ gRemote = [Enabled |-> FALSE, Timeout |-> 60]
    /\ sConfig = [Enabled |-> FALSE, Timeout |-> 60]
    /\ dialed = <<>>
    /\ xPc = "loaded"
    /\ extensions = <<>>
    /\ supportedExtensions = {}
    /\ answers = {}

\* a remote Client and the transfers made with it
SpecClient == InitClient /\
    [][NextClient /\ UNCHANGED <<localVars, convertVars, remoteVars,
                                 dialVars, extVars>>]_vars

\* Convert or ConvertImage is about to be called on one source image
InitConvert ==
    /\ cfg \in LocalConfigs
    /\ execPc = "off"
    /\ execRet = "none"
    /\ summaryLogged = FALSE
    /\ nfiles = 0
    /\ mainPc = "off"
    /\ idx = 0
    /\ semaphore = 0
    /\ wg = 0
    /\ errorCh = <<>>
    /\ pfRet = NoReturn
    /\ pc = [f \in Files |-> "idle"]
    /\ result = [f \in Files |-> NoResult]
    /\ tmp = [f \in Files |-> 0]
    /\ stats = [k \in Counters |-> 0]
    /\ tracker = [processed |-> 0, succeeded |-> 0, failed |-> 0]
    /\ ran = [f \in Files |-> 0]
    /\ issued = [k \in Counters |-> 0]
    /\ configured = cfg.Workers
    /\ observed = [f \in Files |-> 0]
    /\ discovered = "none"
    /\ loaded = [f \in Files |-> "none"]
    /\ op = "none"
    /\ policy = newDefaultRetryConfig
    /\ rpc = "off"
    /\ attempt = 0
    /\ wait = 0
    /\ err = NilErr
    /\ ret = NoRet
    /\ calls = 0
    /\ sleeps = <<>>
    /\ errHist = <<>>
    /\ made = "none"
    /\ c = NilClient
    /\ orphan = "none"
    /\ fpc = "off"
    /\ ncalls = 0
    /\ reconnects = 0
    /\ sftpCalls = [k \in SftpKinds |-> 0]
    /\ creates = 0
    /\ faults = 0
    /\ connOpFaults = 0
    /\ lastFirst = "none"
    /\ lastReconn = "none"
    /\ localOk = TRUE
    /\ localFile = {}
    /\ cvPc = "ready"
    /\ source \in SourcePaths
    /\ codec \in EncoderOutcomes
    /\ bytes \in 1..MaxBytes
    /\ res = NoConversionResult
    /\ disk = {}
    /\ renabled = FALSE
    /\ rPc = "off"
    /\ rRet = "none"
    /\ reported = FALSE
    /\ total = 0
    /\ bpc = "off"
    /\ bi = 0
    /\ bend = 0
    /\ fidx = 0
    /\ fpcR = "idle"
    /\ webpUploaded = FALSE
    /\ avifUploaded = FALSE
    /\ rstats = [k \in RemoteCounters |-> 0]
    /\ rtracker = [processed |-> 0, succeeded |-> 0, failed |-> 0]
    /\ pauseLog = <<>>
    /\ batches = <<>>
    /\ statsLogs = 0
    /\ attempted = <<>>
    /\ finished = 0
    /\ steps = <<>>
    /\ lastErr = "none"
    /\ nfaults = 0
    /\ execCalls = 0
    /\ dPc = "returned"
    /\ remoteYaml = [Enabled |-> FALSE, Timeout |-> 60]
    /\ remoteMode = FALSE
    /\ gRemote = [Enabled |-> FALSE, Timeout |-> 60]
    /\ sConfig = [Enabled |-> FALSE, Timeout |-> 60]
    /\ dialed = <<>>
    /\ xPc = "loaded"
    /\ extensions = <<>>
    /\ supportedExtensions = {}
    /\ answers = {}

\* the conversion of one file, by either conversion service
SpecConvert == InitConvert /\
    [][NextConvert /\ UNCHANGED <<localVars, retryVars, clientVars,
                                  remoteVars, dialVars, extVars>>]_vars

\* remote.Service.Execute is about to run
InitRemote ==
    /\ cfg \in RemoteConfigs
    /\ execPc = "off"
    /\ execRet = "none"
    /\ summaryLogged = FALSE
    /\ nfiles = 0
    /\ mainPc = "off"
    /\ idx = 0
    /\ semaphore = 0
    /\ wg = 0
    /\ errorCh = <<>>
    /\ pfRet = NoReturn
    /\ pc = [f \in Files |-> "idle"]
    /\ result = [f \in Files |-> NoResult]
    /\ tmp = [f \in Files |-> 0]
    /\ stats = [k \in Counters |-> 0]
    /\ tracker = [processed |-> 0, succeeded |-> 0, failed |-> 0]
    /\ ran = [f \in Files |-> 0]
    /\ issued = [k \in Counters |-> 0]
    /\ configured = cfg.Workers
    /\ observed = [f \in Files |-> 0]
    /\ discovered = "none"
    /\ loaded = [f \in Files |-> "none"]
    /\ op = "none"
    /\ policy = newDefaultRetryConfig
    /\ rpc = "off"
    /\ attempt = 0
    /\ wait = 0
    /\ err = NilErr
    /\ ret = NoRet
    /\ calls = 0
    /\ sleeps = <<>>
    /\ errHist = <<>>
    /\ made = "none"
    /\ c = NilClient
    /\ orphan = "none"
    /\ fpc = "off"
    /\ ncalls = 0
    /\ reconnects = 0
    /\ sftpCalls = [k \in SftpKinds |-> 0]
    /\ creates = 0
    /\ faults = 0
    /\ connOpFaults = 0
    /\ lastFirst = "none"
    /\ lastReconn = "none"
    /\ localOk = TRUE
    /\ localFile = {}
    /\ cvPc = "off"
    /\ source = LocalPath
    /\ codec = GoodCodec
    /\ bytes = 1
    /\ res = NoConversionResult
    /\ disk = {}
    /\ renabled \in BOOLEAN
    /\ rPc = "start"
    /\ rRet = "none"
    /\ reported = FALSE
    /\ total = 0
    /\ bpc = "off"
    /\ bi = 0
    /\ bend = 0
    /\ fidx = 0
    /\ fpcR = "idle"
    /\ webpUploaded = FALSE
    /\ avifUploaded = FALSE
    /\ rstats = [k \in RemoteCounters |-> 0]
    /\ rtracker = [processed |-> 0, succeeded |-> 0, failed |-> 0]
    /\ pauseLog = <<>>
    /\ batches = <<>>
    /\ statsLogs = 0
    /\ attempted = <<>>
    /\ finished = 0
    /\ steps = <<>>
    /\ lastErr = "none"
    /\ nfaults = 0
    /\ execCalls = 0
    /\ dPc = "returned"
    /\ remoteYaml = [Enabled |-> FALSE, Timeout |-> 60]
    /\ remoteMode = FALSE
    /\ gRemote = [Enabled |-> FALSE, Timeout |-> 60]
    /\ sConfig = [Enabled |-> FALSE, Timeout |-> 60]
    /\ dialed = <<>>
    /\ xPc = "loaded"
    /\ extensions = <<>>
    /\ supportedExtensions = {}
    /\ answers = {}

\* a remote run
SpecRemote == InitRemote /\
    [][NextRemote /\ UNCHANGED <<localVars, retryVars, fpc, ncalls,
                                 reconnects, sftpCalls, creates, faults,
                                 connOpFaults, lastFirst, lastReconn,
                                 localOk, localFile, cvPc, source, codec, bytes,
                                 res, dialVars, extVars>>]_vars

NextDial ==
    \/ DialLoadConfig
    \/ DialFlags
    \/ DialNewService
    \/ DialValidateConfig
    \/ DialNewClient
    \/ DialReconnect
    \/ DialReturn

\* the program starts with a configuration file and its flags
InitDial ==
    /\ cfg = DefaultConfig
    /\ execPc = "off"
    /\ execRet = "none"
    /\ summaryLogged = FALSE
    /\ nfiles = 0
    /\ mainPc = "off"
    /\ idx = 0
    /\ semaphore = 0
    /\ wg = 0
    /\ errorCh = <<>>
    /\ pfRet = NoReturn
    /\ pc = [f \in Files |-> "idle"]
    /\ result = [f \in Files |-> NoResult]
    /\ tmp = [f \in Files |-> 0]
    /\ stats = [k \in Counters |-> 0]
    /\ tracker = [processed |-> 0, succeeded |-> 0, failed |-> 0]
    /\ ran = [f \in Files |-> 0]
    /\ issued = [k \in Counters |-> 0]
    /\ configured = cfg.Workers
    /\ observed = [f \in Files |-> 0]
    /\ discovered = "none"
    /\ loaded = [f \in Files |-> "none"]
    /\ op = "none"
    /\ policy = newDefaultRetryConfig
    /\ rpc = "off"
    /\ attempt = 0
    /\ wait = 0
    /\ err = NilErr
    /\ ret = NoRet
    /\ calls = 0
    /\ sleeps = <<>>
    /\ errHist = <<>>
    /\ made = "none"
    /\ c = NilClient
    /\ orphan = "none"
    /\ fpc = "off"
    /\ ncalls = 0
    /\ reconnects = 0
    /\ sftpCalls = [k \in SftpKinds |-> 0]
    /\ creates = 0
    /\ faults = 0
    /\ connOpFaults = 0
    /\ lastFirst = "none"
    /\ lastReconn = "none"
    /\ localOk = TRUE
    /\ localFile = {}
    /\ cvPc = "off"
    /\ source = LocalPath
    /\ codec = GoodCodec
    /\ bytes = 1
    /\ res = NoConversionResult
    /\ disk = {}
    /\ renabled = FALSE
    /\ rPc = "off"
    /\ rRet = "none"
    /\ reported = FALSE
    /\ total = 0
    /\ bpc = "off"
    /\ bi = 0
    /\ bend = 0
    /\ fidx = 0
    /\ fpcR = "idle"
    /\ webpUploaded = FALSE
    /\ avifUploaded = FALSE
    /\ rstats = [k \in RemoteCounters |-> 0]
    /\ rtracker = [processed |-> 0, succeeded |-> 0, failed |-> 0]
    /\ pauseLog = <<>>
    /\ batches = <<>>
    /\ statsLogs = 0
    /\ attempted = <<>>
    /\ finished = 0
    /\ steps = <<>>
    /\ lastErr = "none"
    /\ nfaults = 0
    /\ execCalls = 0
    /\ dPc = "load"
    /\ remoteYaml \in [Enabled : BOOLEAN, Timeout : ConfiguredTimeouts]
    /\ remoteMode \in BOOLEAN
    /\ gRemote = remoteYaml
    /\ sConfig = remoteYaml
    /\ dialed = <<>>
    /\ xPc = "loaded"
    /\ extensions = <<>>
    /\ supportedExtensions = {}
    /\ answers = {}

\* the timeout of every SSH dial from the configuration file to ssh.Dial
SpecDial == InitDial /\
    [][NextDial /\ UNCHANGED <<localVars, retryVars, clientVars, convertVars,
                               remoteVars, extVars>>]_vars

NextExt ==
    \/ ExtLoadConfig
    \/ ExtQuery

\* LoadConfig is about to read a list of supported extensions
InitExt ==
    /\ cfg = DefaultConfig
    /\ execPc = "off"
    /\ execRet = "none"
    /\ summaryLogged = FALSE
    /\ nfiles = 0
    /\ mainPc = "off"
    /\ idx = 0
    /\ semaphore = 0
    /\ wg = 0
    /\ errorCh = <<>>
    /\ pfRet = NoReturn
    /\ pc = [f \in Files |-> "idle"]
    /\ result = [f \in Files |-> NoResult]
    /\ tmp = [f \in Files |-> 0]
    /\ stats = [k \in Counters |-> 0]
    /\ tracker = [processed |-> 0, succeeded |-> 0, failed |-> 0]
    /\ ran = [f \in Files |-> 0]
    /\ issued = [k \in Counters |-> 0]
    /\ configured = cfg.Workers
    /\ observed = [f \in Files |-> 0]
    /\ discovered = "none"
    /\ loaded = [f \in Files |-> "none"]
    /\ op = "none"
    /\ policy = newDefaultRetryConfig
    /\ rpc = "off"
    /\ attempt = 0
    /\ wait = 0
    /\ err = NilErr
    /\ ret = NoRet
    /\ calls = 0
    /\ sleeps = <<>>
    /\ errHist = <<>>
    /\ made = "none"
    /\ c = NilClient
    /\ orphan = "none"
    /\ fpc = "off"
    /\ ncalls = 0
    /\ reconnects = 0
    /\ sftpCalls = [k \in SftpKinds |-> 0]
    /\ creates = 0
    /\ faults = 0
    /\ connOpFaults = 0
    /\ lastFirst = "none"
    /\ lastReconn = "none"
    /\ localOk = TRUE
    /\ localFile = {}
    /\ cvPc = "off"
    /\ source = LocalPath
    /\ codec = GoodCodec
    /\ bytes = 1
    /\ res = NoConversionResult
    /\ disk = {}
    /\ renabled = FALSE
    /\ rPc = "off"
    /\ rRet = "none"
    /\ reported = FALSE
    /\ total = 0
    /\ bpc = "off"
    /\ bi = 0
    /\ bend = 0
    /\ fidx = 0
    /\ fpcR = "idle"
    /\ webpUploaded = FALSE
    /\ avifUploaded = FALSE
    /\ rstats = [k \in RemoteCounters |-> 0]
    /\ rtracker = [processed |-> 0, succeeded |-> 0, failed |-> 0]
    /\ pauseLog = <<>>
    /\ batches = <<>>
    /\ statsLogs = 0
    /\ attempted = <<>>
    /\ finished = 0
    /\ steps = <<>>
    /\ lastErr = "none"
    /\ nfaults = 0
    /\ execCalls = 0
    /\ dPc = "returned"
    /\ remoteYaml = [Enabled |-> FALSE, Timeout |-> 60]
    /\ remoteMode = FALSE
    /\ gRemote = [Enabled |-> FALSE, Timeout |-> 60]
    /\ sConfig = [Enabled |-> FALSE, Timeout |-> 60]
    /\ dialed = <<>>
    /\ xPc = "load"
    /\ extensions \in ExtensionLists
    /\ supportedExtensions = {}
    /\ answers = {}

\* IsSupportedExtension after LoadConfig
SpecExt == InitExt /\
    [][NextExt /\ UNCHANGED <<localVars, retryVars, clientVars, convertVars,
                              remoteVars, dialVars>>]_vars

\* ------------------------------------------------------------------------
\* Properties
\* ------------------------------------------------------------------------
Last(seq) == seq[Len(seq)]

RECURSIVE Pow(_, _)
Pow(b, n) == IF n = 0 THEN 1 ELSE b * Pow(b, n - 1)

Min(a, b) == IF a < b THEN a ELSE b

\* files whose goroutine has released its slot
Released == {f \in Files : pc[f] \in {"done", "exited"}}

\* C1: while ProcessFiles runs, the number of conversion tasks that have
\* started and have not released their slot is at most Workers; the
\* semaphore holds exactly one token per such task, so every task that left
\* processFile, failed or not, has given its slot back.
C1_BoundedConcurrency ==
    /\ Cardinality(InFlight) <= cfg.Workers
    /\ semaphore = Cardinality(InFlight)
    /\ \A f \in Released : f \notin InFlight
    /\ (mainPc = "returned" => semaphore = 0)

\* with one worker, the second file runs in the slot that the first file,
\* which failed, has given back
C1_Witness ==
    /\ cfg.Workers = 1
    /\ pc[1] \in {"done", "exited"}
    /\ errorCh = <<1>>
    /\ pc[2] \in Running
    /\ semaphore = 1

\* C2: after ProcessFiles over files whose conversions all returned a
\* result, TotalProcessed equals the number of files and every counter
\* equals the number of increments made on it.
C2_NoLostUpdates ==
    (mainPc = "returned" /\ tracker.failed = 0) =>
        /\ stats["TotalProcessed"] = nfiles
        /\ \A k \in Counters : stats[k] = issued[k]

\* C3: processFile runs at most once per file, only for files of the list,
\* and when ProcessFiles returns it has run exactly once for every file and
\* every goroutine has finished, also when some of them failed.
C3_EveryFileOnce ==
    /\ \A f \in Files : ran[f] <= 1
    /\ \A f \in Files : (f > nfiles => ran[f] = 0 /\ pc[f] = "idle")
    /\ (mainPc = "returned" =>
          \A f \in 1..nfiles : ran[f] = 1 /\ pc[f] = "exited")

\* ProcessFiles returned after a run in which a task failed and another one
\* succeeded
C3_Witness ==
    /\ mainPc = "returned"
    /\ nfiles >= 2
    /\ tracker.failed >= 1
    /\ tracker.succeeded >= 1

\* C4: ProcessFiles returns nil exactly when no task failed; otherwise it
\* returns one error, the first one that was sent on the error channel; a
\* goroutine that has an error to report always finds room in the channel.
C4_FirstError ==
    /\ (mainPc = "returned" =>
          /\ (pfRet.err <=> tracker.failed > 0)
          /\ (pfRet.err => pfRet.file = errorCh[1])
          /\ (~pfRet.err => pfRet.file = 0))
    /\ \A f \in Files : (pc[f] = "sendErr" => Len(errorCh) < ErrorChCap(nfiles))

\* several tasks failed and the error returned is not the one of the first
\* file of the list
C4_Witness ==
    /\ mainPc = "returned"
    /\ Len(errorCh) >= 2
    /\ pfRet.err
    /\ pfRet.file # 1

\* C5: in a real local run whose file search succeeded, Execute reaches the
\* summary and returns nil, whatever the per-file outcomes.
C5_FailureStaysInFile ==
    (execPc = "returned" /\ ~cfg.DryRun /\ nfiles >= 1) =>
        (execRet = "nil" /\ summaryLogged)

\* C6: withRetry calls the operation at least once and at most MaxRetries+1
\* times; no call follows a success; it returns nil at the first success
\* and otherwise only after the (MaxRetries+1)-th failure.
C6_AttemptCount ==
    op = "generic" =>
        /\ calls = Len(errHist)
        /\ calls <= policy.MaxRetries + 1
        /\ \A i \in 1..(Len(errHist) - 1) : errHist[i] # NilErr
        /\ (rpc = "returned" =>
              /\ calls >= 1
              /\ (Last(errHist) = NilErr => ret = NilReturn)
              /\ (Last(errHist) # NilErr => calls = policy.MaxRetries + 1))

\* the default policy, three failures, success at the last allowed attempt
C6_Witness ==
    /\ op = "generic"
    /\ policy = newDefaultRetryConfig
    /\ rpc = "returned"
    /\ calls = policy.MaxRetries + 1
    /\ ret = NilReturn

\* C7: one sleep follows each failed attempt but the last allowed one, none
\* precedes the first attempt and none follows a success; the k-th sleep
\* lasts InitialWait * Factor^(k-1) capped at MaxWait; with the default
\* policy three failures then a success give 4 attempts, sleeps of 2, 4
\* and 8 seconds, and nil.
C7_Backoff ==
    op = "generic" =>
        /\ Len(sleeps) = IF rpc = "call" THEN calls ELSE calls - 1
        /\ \A k \in 1..Len(sleeps) :
             sleeps[k] = Min(policy.InitialWait * Pow(policy.Factor, k - 1),
                             policy.MaxWait)
        /\ ((policy = newDefaultRetryConfig /\ rpc = "returned" /\
             Len(errHist) = 4 /\ errHist[4] = NilErr)
              => (calls = 4 /\ sleeps = <<2, 4, 8>> /\ ret = NilReturn))

\* the default policy after three failures and a success
C7_Witness ==
    /\ op = "generic"
    /\ policy = newDefaultRetryConfig
    /\ rpc = "returned"
    /\ Len(errHist) = 4
    /\ errHist[4] = NilErr
    /\ sleeps = <<2, 4, 8>>

\* C8: when all the MaxRetries+1 attempts failed, withRetry returns an error
\* that wraps the error of the last attempt and reports MaxRetries; it
\* returns an error in no other case.
C8_ExhaustedError ==
    (op = "generic" /\ rpc = "returned") =>
        /\ (ret.err <=> (/\ Len(errHist) = policy.MaxRetries + 1
                         /\ \A i \in 1..Len(errHist) : errHist[i] # NilErr))
        /\ (ret.err => /\ ret.wraps = Last(errHist)
                       /\ ret.retries = policy.MaxRetries)

\* all attempts failed and the last error differs from the first one
C8_Witness ==
    /\ op = "generic"
    /\ rpc = "returned"
    /\ ret.err
    /\ policy.MaxRetries >= 1
    /\ errHist[1] # Last(errHist)
    /\ ret.wraps = Last(errHist)

\* an SFTP step of the transfer closure has just run its first request
SftpStepDone ==
    /\ rpc = "fn"
    /\ fpc \in {"open", "mkdir", "create"}
    /\ fpc' # fpc

\* C9, each step: a connection-class error of the first request leads to
\* exactly one reconnect and, when it succeeds, to exactly one more request
\* of the same kind in the same attempt and without a sleep; any other
\* outcome leads to no reconnect and no second request.
C9_StepRule ==
    SftpStepDone =>
        LET dr == reconnects' - reconnects
            dq == sftpCalls'[fpc] - sftpCalls[fpc]
        IN /\ \A k \in SftpKinds \ {fpc} : sftpCalls'[k] = sftpCalls[k]
           /\ attempt' = attempt
           /\ sleeps' = sleeps
           /\ IF lastFirst' # "ok" /\ isConnectionError(lastFirst')
              THEN /\ dr = 1
                   /\ lastReconn' \in {"ok", "failed"}
                   /\ dq = IF lastReconn' = "ok" THEN 2 ELSE 1
              ELSE /\ dr = 0
                   /\ dq = 1
                   /\ lastReconn' = "none"

\* C9, the upload: an upload whose only failure is one connection-class
\* error of mkdir or create succeeds with one reconnect, one remote file
\* creation and no sleep.
C9_SingleError ==
    (op = "upload" /\ rpc = "returned" /\ faults = 1 /\ connOpFaults = 1) =>
        /\ ret = NilReturn
        /\ reconnects = 1
        /\ creates = 1
        /\ sleeps = <<>>
        /\ calls = 1

\* C9: reconnect once and retry the request at once on a connection-class
\* error of open, mkdir or create, and only then.
C9_ReconnectAndRetry == [][C9_StepRule]_vars /\ []C9_SingleError

\* an upload that met one connection-class error of create and succeeded
C9_Witness ==
    /\ op = "upload"
    /\ rpc = "returned"
    /\ faults = 1
    /\ connOpFaults = 1
    /\ sftpCalls["create"] = 2
    /\ reconnects = 1
    /\ ret = NilReturn

\* C10: the SSH connection and the SFTP session of a Client are both open
\* or both not open, no connection of a failed NewClient stays open, and a
\* failed construction gives no client.
C10_PairedConnections ==
    /\ (c.client = "open" <=> c.sftp = "open")
    /\ orphan # "open"
    /\ (made = "failed" => c = NilClient)
    /\ (made = "made" => c.client # "nil" /\ c.sftp # "nil")

\* after a reconnect that failed when the SFTP session was opened
C10_Witness ==
    /\ made = "made"
    /\ c.client = "closed"
    /\ c.sftp = "closed"
    /\ orphan = "closed"
    /\ reconnects >= 1

Max(a, b) == IF a > b THEN a ELSE b

\* number of batches of batchSize files needed for n files
Ceil(n) == (n + batchSize - 1) \div batchSize

\* C11: the k-th batch formed by processBatches starts right after the
\* previous one (the first one at the first candidate) and has batchSize
\* files, or the 1 to batchSize files that remain when it is the last one;
\* when processBatches returns, ceil(N / batchSize) batches were formed and
\* every candidate was handled exactly once, in list order; 25 candidates
\* give 10, 10, 5 and none gives no batch.
C11_Batching ==
    /\ \A k \in 1..Len(batches) :
         /\ batches[k][1] = batchSize * (k - 1) + 1
         /\ batches[k][2] = Min(batchSize * k, total)
         /\ batches[k][2] - batches[k][1] + 1 \in 1..batchSize
    /\ bpc = "returned" =>
         /\ Len(batches) = Ceil(total)
         /\ total > 0 => batches[Len(batches)][2] = total
         /\ attempted = [j \in 1..total |-> j]
    /\ (bpc = "returned" /\ total = 25) =>
         batches = << <<1, 10>>, <<11, 20>>, <<21, 25>> >>
    /\ (bpc = "returned" /\ total = 0) => batches = <<>>

\* processBatches returned after 25 candidates, some of which failed
C11_Witness ==
    /\ bpc = "returned"
    /\ total = 25
    /\ Len(batches) = 3
    /\ rtracker.failed > 0

\* C12: when a remote run that formed B batches has ended, max(B - 1, 0)
\* sleeps were made, each of them before a batch other than the first.
C12_Pauses ==
    (rPc = "returned" /\ rRet = "nil") =>
        /\ Len(pauseLog) = Max(Len(batches) - 1, 0)
        /\ \A k \in 1..Len(pauseLog) : pauseLog[k] >= 2

\* C13: files are handed to ProcessRemoteFile in list order, one at a time:
\* a file is started only when every earlier file has returned, and only
\* inside the batch it belongs to; a batch is formed only after the
\* statistics of the previous batch were logged.
C13_Sequential ==
    /\ attempted = [j \in 1..Len(attempted) |-> j]
    /\ Len(attempted) - finished \in {0, 1}
    /\ fpcR # "idle" <=> Len(attempted) = finished + 1
    /\ fpcR # "idle" => bpc = "files"
    /\ Len(batches) - statsLogs \in {0, 1}
    /\ bpc = "files" <=> Len(batches) = statsLogs + 1
    /\ Len(attempted) > 0 =>
         /\ Len(batches) > 0
         /\ Len(attempted) <= batches[Len(batches)][2]
         /\ bpc = "files" => Len(attempted) >= batches[Len(batches)][1] - 1
    /\ \A k \in 1..statsLogs : finished >= batches[k][2]

\* the first file of the second batch is being converted after a failure in
\* the first batch
C13_Witness ==
    /\ Len(batches) = 2
    /\ statsLogs = 1
    /\ fpcR = "convert"
    /\ finished = batchSize
    /\ rtracker.failed > 0

\* C14: processBatches never ends with an error; the statistics of a batch
\* are logged only after every file of the batch was handled; when
\* processBatches returns, every candidate was handed to ProcessRemoteFile
\* and counted by the tracker, whatever the outcomes; Execute returns an
\* error only before processBatches was called.
C14_FailuresStayInFile ==
    /\ bpc # "failed"
    /\ \A k \in 1..statsLogs : finished >= batches[k][2]
    /\ bpc = "returned" =>
         /\ Len(attempted) = total
         /\ finished = total
         /\ rtracker.processed = total
         /\ rtracker.succeeded + rtracker.failed = total
    /\ rRet = "error" => bpc = "off"
    /\ (rPc = "returned" /\ bpc = "returned") => rRet = "nil"

\* the run ended without error although a download failed, and every other
\* file of its two batches succeeded
C14_Witness ==
    /\ rPc = "returned"
    /\ rRet = "nil"
    /\ total > batchSize
    /\ rstats["DownloadFailed"] = 1
    /\ rtracker.failed = 1
    /\ rtracker.succeeded = total - 1

\* C15: when ProcessRemoteFile has returned after a successful download,
\* none of the files it downloaded or produced is left in the temp directory.
C15_TempFilesRemoved ==
    (fpcR = "idle" /\ lastErr \in {"nil", "convert", "upload"}) => disk = {}

\* C16: for one file, no conversion and no upload is executed after a
\* download or an upload that failed.
C16_SkipAfterTransferFailure ==
    \A i \in 1..Len(steps) : \A j \in 1..Len(steps) :
        (/\ i < j
         /\ steps[i].step \in {"download", "upload"}
         /\ ~steps[i].ok) => steps[j].step \notin {"convert", "upload"}

\* C17: a file is downloaded only in a run whose configuration was
\* validated, whose connection was made and whose search succeeded; a run
\* that fails at one of these stages returns an error without having
\* downloaded anything; the results are reported only once all batches are
\* complete, and exactly in the runs that return nil; when Execute has
\* returned, a connection that was made is closed.
C17_RunOrder ==
    /\ rPc \in {"start", "connect"} => made = "none"
    /\ rPc \in {"find", "tempdir", "batches"} => (renabled /\ made = "made")
    /\ rPc \in {"start", "connect", "find"} => pauseLog = <<>>
    /\ rPc \in {"start", "connect", "find", "tempdir"} =>
         (bpc = "off" /\ attempted = <<>>)
    /\ attempted # <<>> => (renabled /\ made = "made" /\ pauseLog # <<>>)
    /\ rRet = "error" => (attempted = <<>> /\ ~reported)
    /\ reported => (bpc = "returned" /\ finished = total /\ rRet = "nil")
    /\ rPc = "returned" =>
         /\ rRet # "none"
         /\ rRet = "nil" <=> reported
         /\ (~renabled \/ made = "failed") => rRet = "error"
         /\ made = "made" => (c.client = "closed" /\ c.sftp = "closed")
         /\ orphan \in {"none", "closed"}
    /\ rPc # "returned" => rRet = "none"

\* the search failed on a connection that was made: Execute returned an error
\* and the connection is closed
C17_Witness ==
    /\ rPc = "returned"
    /\ rRet = "error"
    /\ made = "made"
    /\ c.client = "closed"
    /\ attempted = <<>>

\* C18: in remote mode, between two files, TotalProcessed equals the number
\* of files whose download succeeded, that is, whose conversion was attempted.
C18_TotalProcessed ==
    fpcR = "idle" =>
        rstats["TotalProcessed"] = finished - rstats["DownloadFailed"]

\* C19: when ProcessFiles returns, TotalProcessed was incremented once for
\* every file, the files that could not be decoded included, and the success
\* counters were incremented for decoded files only.
C19_DecodeFailureCounted ==
    pfRet.returned =>
        /\ issued["TotalProcessed"] = tracker.succeeded + tracker.failed
        /\ issued["WebPSuccess"] <= tracker.succeeded
        /\ issued["AVIFSuccess"] <= tracker.succeeded

\* C20: in every ConversionResult returned by Convert, for each format:
\* success implies attempted, a positive size, and a file at the output path
\* with exactly that size; a disabled format is neither attempted nor
\* successful and has an empty path.
C20_ResultConsistent ==
    (cvPc = "done" /\ ~res.err) =>
        /\ res.WebPSuccess =>
             /\ res.WebPAttempted
             /\ res.WebPSize > 0
             /\ \E f \in Stat(disk, res.WebPPath) : f.size = res.WebPSize
        /\ res.AVIFSuccess =>
             /\ res.AVIFAttempted
             /\ res.AVIFSize > 0
             /\ \E f \in Stat(disk, res.AVIFPath) : f.size = res.AVIFSize
        /\ ~cfg.WebPEnabled =>
             (~res.WebPAttempted /\ ~res.WebPSuccess /\ res.WebPPath = NoPath)
        /\ ~cfg.AVIFEnabled =>
             (~res.AVIFAttempted /\ ~res.AVIFSuccess /\ res.AVIFPath = NoPath)

\* Convert returned a result with a WebP success next to an AVIF failure
\* whose file was left behind, AVIF being enabled
C20_Witness ==
    /\ cvPc = "done"
    /\ ~res.err
    /\ res.WebPSuccess
    /\ res.WebPSize = MaxBytes
    /\ res.AVIFAttempted
    /\ ~res.AVIFSuccess
    /\ Stat(disk, res.AVIFPath) # {}

\* the name of a source without its last dot-separated part
Stem(name) == SubSeq(name, 1, Len(name) - 1)

\* C21: after Convert returns in non-dry-run mode with AVIF enabled, either
\* AVIFSuccess is true and the file at AVIFPath is non-empty and can be
\* decoded again, or no file exists at AVIFPath and the result is counted as
\* an AVIF failure; also after an encoder error or a zero-byte result that
\* came after the output file was created.
C21_AVIFOutputOrNothing ==
    (cvPc = "done" /\ ~res.err /\ ~cfg.DryRun /\ cfg.AVIFEnabled) =>
        \/ /\ res.AVIFSuccess
           /\ \E f \in Stat(disk, res.AVIFPath) : f.size > 0 /\ f.decodable
        \/ /\ ~res.AVIFSuccess
           /\ Stat(disk, res.AVIFPath) = {}
           /\ AVIFCounter(res) = "AVIFFailed"

\* C22: in dry-run mode a conversion call leaves the directory as it was and
\* returns an error only when the source cannot be decoded; the result of
\* Convert records for every enabled format the path
\* <source directory>/<basename>.<ext> and marks it attempted, records no
\* path for a disabled format, and sets no success flag and no size.
C22_DryRunStep ==
    (cfg.DryRun /\ cvPc = "ready" /\ cvPc' # "ready") =>
        /\ disk' = disk
        /\ res'.err <=> ~codec.decode
        /\ (cvPc' = "done" /\ ~res'.err) =>
             /\ ~res'.WebPSuccess /\ ~res'.AVIFSuccess
             /\ res'.WebPSize = 0 /\ res'.AVIFSize = 0
             /\ res'.WebPAttempted <=> cfg.WebPEnabled
             /\ res'.AVIFAttempted <=> cfg.AVIFEnabled
             /\ res'.WebPPath =
                    IF cfg.WebPEnabled
                    THEN [dir |-> source.dir,
                          name |-> Stem(source.name) \o <<"webp">>]
                    ELSE NoPath
             /\ res'.AVIFPath =
                    IF cfg.AVIFEnabled
                    THEN [dir |-> source.dir,
                          name |-> Stem(source.name) \o <<"avif">>]
                    ELSE NoPath

C22_DryRunNoEffect == [][C22_DryRunStep]_vars

\* a dry run of Convert on b.c.jpg with both formats enabled returned a
\* result that names in/b.c.webp and in/b.c.avif
C22_Witness ==
    /\ cvPc = "done"
    /\ cfg.DryRun /\ cfg.WebPEnabled /\ cfg.AVIFEnabled
    /\ ~res.err
    /\ source.name = <<"b", "c", "jpg">>
    /\ res.WebPPath = [dir |-> "in", name |-> <<"b", "c", "webp">>]
    /\ res.AVIFPath = [dir |-> "in", name |-> <<"b", "c", "avif">>]
    /\ codec.webp = "ok" /\ codec.avif = "ok"
    /\ disk = {}

\* C23: in dry-run mode no file is reported as failed because of the skipped
\* conversion steps: in remote mode a file that was downloaded and decoded
\* makes ProcessRemoteFile return no error and increments no failure
\* counter, so the only failures are failed downloads and failed decodes; in
\* local mode no conversion task runs and no failure counter changes.
C23_DryRunNoFailure ==
    cfg.DryRun =>
        /\ lastErr \in {"none", "nil", "download", "convert"}
        /\ rtracker.failed = rstats["DownloadFailed"] + rstats["ConvertFailed"]
        /\ rstats["WebPFailed"] = 0 /\ rstats["AVIFFailed"] = 0
        /\ execPc # "off" =>
              /\ \A f \in Files : ran[f] = 0
              /\ tracker.failed = 0
              /\ \A k \in Counters : stats[k] = 0

\* C24: after DownloadFile has returned an error, all retries exhausted, no
\* partially written file left by any of its attempts exists at localPath.
C24_NoPartialFile ==
    (op = "download" /\ rpc = "returned" /\ ret.err) =>
        Stat(localFile, LocalPath) = {}

\* C25: UploadFile validates the local file before any remote operation in
\* every attempt: when the local file is missing, empty, or an image that
\* cannot be decoded, no remote directory is created, no remote file is
\* created or written, and the upload ends in error.
C25_ValidateFirst ==
    (op = "upload" /\ \A f \in localFile : f.size = 0 \/ ~f.decodable) =>
        /\ \A k \in SftpKinds : sftpCalls[k] = 0
        /\ creates = 0
        /\ fpc \in {"off", "validate"}
        /\ rpc = "returned" => ret.err

\* an upload of a non-empty file that cannot be decoded has ended in error
\* after the validation failed in each of the four attempts
C25_Witness ==
    /\ op = "upload"
    /\ localFile = {[path |-> LocalPath, size |-> 1, decodable |-> FALSE]}
    /\ rpc = "returned"
    /\ ret.err
    /\ calls = newDefaultRetryConfig.MaxRetries + 1
    /\ err.op = "validate"

\* the transport of client cl is torn down: a connection is nil or closed
TornDown(cl) == cl.client # "open" \/ cl.sftp # "open"

\* C27: whenever a download or upload attempt begins while the transport is
\* torn down (after a failed reconnect, or after Close), ensureConnection
\* attempts a reconnect before any SFTP operation is issued, and when that
\* reconnect fails the attempt fails without using the transport; so no
\* SFTP request is ever issued on a torn-down transport.
C27_Step ==
    /\ (rpc = "fn" /\ fpc = "ensure" /\ TornDown(c)) =>
          /\ reconnects' = reconnects + 1
          /\ sftpCalls' = sftpCalls
          /\ TornDown(c') => (rpc' = "check" /\ err' # NilErr)
    /\ (rpc = "fn" /\ fpc \in {"open", "mkdir", "create", "copy"}
           /\ TornDown(c)) =>
          sftpCalls' = sftpCalls

C27_ReconnectFirst == [][C27_Step]_vars

\* C28, each step: a reconnect that fails makes the enclosing attempt return
\* an error that carries the reconnect error.
C28_Step ==
    (rpc = "fn" /\ reconnects' = reconnects + 1 /\ TornDown(c')) =>
        /\ rpc' = "check"
        /\ err' # NilErr
        /\ err'.reconnErr \in {"config", "dial", "sftp"}

\* C28, the transfer: a transfer whose last attempt ended with a failed
\* reconnect returns an error wrapping it, and a transfer reports success
\* only when its last attempt met no failed reconnect.
C28_Transfer ==
    (op \in Transfers /\ rpc = "returned") =>
        /\ err.reconnErr # "" => (ret.err /\ ret.wraps = err)
        /\ ~ret.err => err = NilErr

C28_ReconnectErrorKept == [][C28_Step]_vars /\ []C28_Transfer

\* an upload in which every attempt met a connection error followed by a
\* failed reconnect has ended in an error that carries the reconnect error
C28_Witness ==
    /\ op = "upload"
    /\ rpc = "returned"
    /\ ret.err
    /\ calls = newDefaultRetryConfig.MaxRetries + 1
    /\ reconnects = newDefaultRetryConfig.MaxRetries + 1
    /\ TornDown(c)
    /\ ret.wraps.reconnErr = "dial"

\* C26: the remote command execution is wrapped by withRetry like download
\* and upload: a failing discovery listing is re-attempted up to MaxRetries
\* more times before its error reaches the caller, so an Execute that ended
\* on a failed listing has run the command MaxRetries + 1 times.
C26_ExecuteRetried ==
    (rPc = "returned" /\ rRet = "error" /\ made = "made" /\ total = 0
        /\ pauseLog = <<>> /\ execCalls > 0) =>
        execCalls = newDefaultRetryConfig.MaxRetries + 1

\* ProcessFiles is running: Execute has called it and it has not returned
ProcessFilesRunning == execPc = "processing" /\ mainPc # "returned"

\* C29: with a configured worker count <= 0, ProcessFiles behaves as with
\* one worker: the pool has one slot, at most one task runs at a time,
\* ProcessFiles is never blocked while it runs, and when it returns
\* processFile has run exactly once for every file.
C29_NonPositiveWorkers ==
    configured <= 0 =>
        /\ cfg.Workers = 1
        /\ semaphore <= 1
        /\ Cardinality(InFlight) <= 1
        /\ ProcessFilesRunning => ENABLED NextLocal
        /\ mainPc = "returned" =>
              \A f \in 1..nfiles : ran[f] = 1 /\ pc[f] = "exited"

\* with a configured worker count of 0, ProcessFiles has returned after the
\* tasks of all the files ran one after the other
C29_Witness ==
    /\ configured = 0
    /\ mainPc = "returned"
    /\ nfiles = MaxFiles
    /\ \A f \in 1..nfiles : ran[f] = 1 /\ pc[f] = "exited"
    /\ semaphore = 0

\* C30: each local task makes exactly one tracker call, IncrementSuccess
\* or IncrementFailed: the tracker's processed count is the number of calls
\* made and equals succeeded + failed at all times, a task that has left
\* processFile has made one call, the tasks never block each other, and
\* when ProcessFiles returns processed = succeeded + failed = N.
C30_OneObserverCall ==
    /\ \A f \in Files : observed[f] <= 1
    /\ \A f \in Files :
         pc[f] \in {"release", "done", "exited"} => observed[f] = 1
    /\ tracker.processed = Cardinality({f \in Files : observed[f] = 1})
    /\ tracker.processed = tracker.succeeded + tracker.failed
    /\ ProcessFilesRunning => ENABLED NextLocal
    /\ mainPc = "returned" =>
          /\ tracker.processed = nfiles
          /\ tracker.succeeded + tracker.failed = nfiles

\* with two workers, ProcessFiles has returned after every file was
\* observed once, one as a success and one as a failure
C30_Witness ==
    /\ cfg.Workers >= 2
    /\ mainPc = "returned"
    /\ nfiles >= 2
    /\ \A f \in 1..nfiles : observed[f] = 1
    /\ tracker.succeeded >= 1
    /\ tracker.failed >= 1
    /\ tracker.processed = nfiles

\* C31: for the same source, enabled formats and encoder outcomes,
\* Service.ConvertImage leaves the same output files as
\* ImageConverter.Convert and encodes the same formats; a WebP encode
\* failure does not prevent the AVIF encode in either of them.
C31_SameOutputs ==
    (cvPc = "doneImage" /\ codec.decode) =>
        /\ disk = ConvertFiles(cfg, source, codec, bytes)
        /\ (cfg.AVIFEnabled /\ ~cfg.DryRun /\ codec.avif = "ok") =>
              Stat(disk, OutputPath(source.dir, BaseFileName(source),
                                    "avif")) # {}

\* C32: every SSH dial of a remote run, the dials of reconnect included,
\* uses a timeout of at least 60 seconds, whatever timeout the configuration
\* file gives and whether remote mode was enabled in the file or only by the
\* -remote flag.
C32_DialTimeoutFloor ==
    \A i \in DOMAIN dialed : dialed[i] >= 60

\* remote mode enabled by the flag only, a configured timeout below 60, and
\* both NewClient and a reconnect have dialled
C32_Witness ==
    /\ ~remoteYaml.Enabled
    /\ remoteMode
    /\ remoteYaml.Timeout < 60
    /\ Len(dialed) >= 2

\* C33: IsSupportedExtension gives the same answer for the spellings of one
\* extension that differ only in letter case or in the leading dot.
SameExtension(a, b) ==
    LET bare(x) == IF Len(x) > 0 /\ x[1] = "." THEN Tail(x) ELSE x
    IN ToLower(bare(a)) = ToLower(bare(b))

C33_SpellingInsensitive ==
    \A a \in answers : \A b \in answers :
        SameExtension(a.ext, b.ext) => a.ok = b.ok

\* the part of C33 about letter case alone
C33_CaseInsensitive ==
    \A a \in answers : \A b \in answers :
        ToLower(a.ext) = ToLower(b.ext) => a.ok = b.ok

\* C34: no ConversionStats counter is ever decremented: every step of a
\* local or a remote run leaves each counter at least as large as it was.
C34_Step ==
    /\ \A k \in Counters : stats'[k] >= stats[k]
    /\ \A k \in RemoteCounters : rstats'[k] >= rstats[k]

C34_NonDecreasing == [][C34_Step]_vars

Reported(f) == pc[f] = "sendErr" \/ \E i \in DOMAIN errorCh : errorCh[i] = f

AllEncodesFailed(r) ==
    /\ ~r.err
    /\ r.WebPAttempted \/ r.AVIFAttempted
    /\ ~r.WebPSuccess
    /\ ~r.AVIFSuccess

C36_FailedIffLoadFailed ==
    /\ \A f \in Files : Reported(f) <=> loaded[f] = "failed"
    /\ tracker.failed = Cardinality({f \in Files : loaded[f] = "failed"})
    /\ tracker.succeeded =
          Cardinality({f \in Files : /\ loaded[f] = "ok"
                                     /\ pc[f] \in {"release", "done", "exited"}})
    /\ pfRet.returned =>
          (pfRet.err <=> \E f \in Files : loaded[f] = "failed")
    /\ \A f \in Files :
          AllEncodesFailed(result[f]) =>
              /\ loaded[f] = "ok"
              /\ ~Reported(f)
              /\ pc[f] \in {"webpRead", "webpWrite", "avifRead", "avifWrite"}
              /\ StageCounter(pc[f], result[f]) \in {"WebPFailed", "AVIFFailed"}

\* ProcessFiles returned the error of a file that could not be loaded, and
\* another file, none of whose encodes had worked, was counted as succeeded
C36_Witness ==
    /\ pfRet.returned
    /\ pfRet.err
    /\ tracker.failed = 1
    /\ tracker.succeeded = 1
    /\ ~cfg.DryRun
    /\ stats["WebPFailed"] = 1
    /\ stats["AVIFFailed"] = 1
    /\ stats["WebPSuccess"] = 0
    /\ stats["AVIFSuccess"] = 0

\* C37: in local mode, for each file whose conversion returned a result and
\* for each enabled format, exactly one of the format's success and failure
\* counters is incremented once, and nothing is incremented for a disabled
\* format; with one worker, after the run, WebPSuccess + WebPFailed =
\* TotalProcessed when WebP is enabled, and likewise for AVIF.
PastStage(stages) == {f \in Files : loaded[f] = "ok" /\ pc[f] \in stages}

AfterTotal == {"track", "release", "done", "exited"}

AfterAVIF == AfterTotal \cup {"totalRead", "totalWrite"}

AfterWebP == AfterAVIF \cup {"avifRead", "avifWrite"}

C37_OneCounterPerFormat ==
    /\ issued["WebPSuccess"] + issued["WebPFailed"] =
          IF cfg.WebPEnabled THEN Cardinality(PastStage(AfterWebP)) ELSE 0
    /\ issued["AVIFSuccess"] + issued["AVIFFailed"] =
          IF cfg.AVIFEnabled THEN Cardinality(PastStage(AfterAVIF)) ELSE 0
    /\ issued["TotalProcessed"] = Cardinality(PastStage(AfterTotal))
    /\ (cfg.Workers = 1 /\ mainPc = "returned") =>
          /\ stats["TotalProcessed"] = Cardinality(PastStage(AfterTotal))
          /\ cfg.WebPEnabled =>
                stats["WebPSuccess"] + stats["WebPFailed"] =
                    stats["TotalProcessed"]
          /\ ~cfg.WebPEnabled =>
                stats["WebPSuccess"] + stats["WebPFailed"] = 0
          /\ cfg.AVIFEnabled =>
                stats["AVIFSuccess"] + stats["AVIFFailed"] =
                    stats["TotalProcessed"]
          /\ ~cfg.AVIFEnabled =>
                stats["AVIFSuccess"] + stats["AVIFFailed"] = 0

\* a run of one worker over two files returned: one WebP encode worked, the
\* other failed, and AVIF is disabled
C37_Witness ==
    /\ cfg.Workers = 1
    /\ cfg.WebPEnabled
    /\ ~cfg.AVIFEnabled
    /\ mainPc = "returned"
    /\ stats["TotalProcessed"] = 2
    /\ stats["WebPSuccess"] = 1
    /\ stats["WebPFailed"] = 1

\* C38: in remote mode every processed file increments exactly one of
\* DownloadFailed, ConvertFailed and TotalProcessed: after k files have been
\* handled the three add up to k, and a file whose download failed counts
\* once, whatever the number of attempts DownloadFile made.
Handled == rstats["DownloadFailed"] + rstats["ConvertFailed"]
               + rstats["TotalProcessed"]

C38_OneOfThree ==
    /\ fpcR \in {"idle", "convert"} => Handled = finished
    /\ fpcR \in {"uploadWebP", "uploadAVIF", "cleanup"} =>
          Handled = finished + 1
    /\ lastErr = "download" => rstats["DownloadFailed"] >= 1
    /\ rstats["DownloadFailed"] <= finished

\* two files were handled: the download of one failed, the other was
\* converted
C38_Witness ==
    /\ fpcR = "idle"
    /\ finished = 2
    /\ rstats["DownloadFailed"] = 1
    /\ rstats["TotalProcessed"] = 1

C39_SleepCappedFromSecond ==
    \A i \in DOMAIN sleeps :
        (i > 1 \/ policy.InitialWait <= policy.MaxWait) =>
            sleeps[i] <= policy.MaxWait

\* C40: the reconnects of one DownloadFile or UploadFile call are bounded
\* however the remote side fails: at most 2 in an attempt of a download and
\* 3 in an attempt of an upload, hence at most 2 * (MaxRetries + 1) and
\* 3 * (MaxRetries + 1) in a call; and the call terminates: while it runs a
\* step of it can be taken, and every step brings it nearer to its return.
ReconnectStages(kind) ==
    IF kind = "download" THEN {"ensure", "open"}
    ELSE {"ensure", "mkdir", "create"}

StageRank(p) ==
    CASE p \in {"mkdirLocal", "validate"} -> 1
      [] p = "ensure"                     -> 2
      [] p \in {"open", "mkdir"}          -> 3
      [] p = "create"                     -> 4
      [] p = "copy"                       -> 5
      [] OTHER                            -> 0

\* position of the call: the attempt, then the place inside the attempt
Progress ==
    attempt * 8 + (CASE rpc = "call"  -> 0
                     [] rpc = "fn"    -> StageRank(fpc)
                     [] rpc = "check" -> 6
                     [] OTHER         -> 7)

TransferRunning == op \in Transfers /\ rpc \in {"call", "fn", "check"}

TransferStep ==
    \/ withRetryCallTransfer
    \/ withRetryResult /\ UNCHANGED clientVars
    \/ DownloadMkdirLocal
    \/ validateLocalFile
    \/ ensureConnection
    \/ DownloadOpen
    \/ copyToLocalFile
    \/ UploadMkdir
    \/ UploadCreate
    \/ transferFileToRemote

C40_Bound ==
    op \in Transfers =>
        /\ calls <= policy.MaxRetries + 1
        /\ attempt <= policy.MaxRetries + 1
        /\ reconnects <= Cardinality(ReconnectStages(op)) * calls
        /\ reconnects <= Cardinality(ReconnectStages(op))
                             * (policy.MaxRetries + 1)
        /\ TransferRunning => ENABLED TransferStep

C40_Step ==
    TransferRunning =>
        /\ reconnects' <= reconnects + 1
        /\ reconnects' > reconnects =>
              rpc = "fn" /\ fpc \in ReconnectStages(op)
        /\ rpc' = "returned" \/ Progress' > Progress

C40_ReconnectsBounded == []C40_Bound /\ [][C40_Step]_vars

\* an upload returned after every attempt had failed and had reconnected
C40_Witness ==
    /\ op = "upload"
    /\ rpc = "returned"
    /\ ret.err
    /\ calls = policy.MaxRetries + 1
    /\ reconnects >= calls

====
